---- MODULE Spec2Model ----
(***************************************************************************)
(* State-machine model of the CapabilityMapApp container component         *)
(* (lwc/capabilityMapApp/capabilityMapApp.js, class of v2.4.0): the        *)
(* in-memory snapshot {categories, capabilities}, the selection, the       *)
(* colour/phase rules and the undo/redo history.                           *)
(*                                                                         *)
(* Each event handler runs to completion and is one action.  The remote    *)
(* procedures are opaque: a call either resolves (ok = TRUE) or rejects,   *)
(* and a load resolves with a response drawn from a bounded set.           *)
(*                                                                         *)
(* JavaScript objects have identity.  restoreFromHistory assigns the       *)
(* arrays stored in a history entry to the live fields, so the live        *)
(* capability objects can BE the objects of a history entry.  capRef       *)
(* records, for every live capability object, which history entry object   *)
(* it is (or NoRef), so that an in-place write is applied to both.         *)
(***************************************************************************)
EXTENDS Integers, Sequences, FiniteSets, TLC

\* ------------------------------------------------------------------ bounds
NumCaps == 2          \* capability identifiers 1..NumCaps
MaxPushes == 3
MaxHistory == 50      \* history cap of saveHistory
CapPushes == 52       \* saveHistory calls explored in SpecCap (beyond the cap)
CapUndos == 2         \* undo steps explored in SpecCap
ColorSteps == 2       \* handler runs explored in SpecColor
PaintSteps == 1       \* handler runs explored in SpecPaint
SizeSteps == 1        \* handler runs explored in SpecSize
PhaseSteps == 1       \* handler runs explored in SpecPhase
MoveCaps == 1         \* capabilities of a map in SpecMove
MovePushes == 2       \* saveHistory calls explored in SpecMove
LoadCalls == 2        \* handler calls explored in SpecSwitch
ViewCaps == 3         \* capabilities of the map in SpecView
ModalCalls == 2       \* Apex calls explored in SpecModal
DeleteCaps == 2       \* capabilities of the map in SpecDelete
DeletePushes == 2     \* saveHistory calls explored in SpecDelete
SavePushes == 1       \* saveHistory calls explored in SpecSave
TemplateCalls == 3    \* getTemplateWithItems calls explored in SpecTemplate
SelectorCalls == 2    \* getProjects calls explored in SpecSelector

Unlimited == 0 - 1    \* budget value that is never used up

\* ------------------------------------------------------------- value sets
CapIds == 1 .. NumCaps
CatIds == {1, 2}
MapIds == {1}
NoMap == 0
NoColor == ""         \* Color__c null / undefined
NoPhase == ""         \* Phase__c null / undefined
Sizes == {"TBD", "XL"}
Phases == {"Phase 1", "Phase 2"}
Colors == {"#0176D3", "#EF4444"}

\* the sizes and phases the bulk operations modal offers
SIZES == {"XS", "S", "M", "L", "XL", "XXL", "XXXL", "TBD"}
PHASES == {"Phase 1", "Phase 2", "Phase 3", "Phase 4", "Future", "Out of Scope"}

\* Hours_Override__c of a capability that carries no override (null)
NoOverride == 0 - 1
\* hours overrides a capability can carry: none, zero, some hours
Overrides == {NoOverride, 0, 8}
\* the map's hours configuration (the fields of capabilityMap that
\* getHoursForSize reads), for the sizes of the model
capabilityMap == [XL_Hours__c |-> 32]

Truthy(s) == s # ""

NoRef == [h |-> 0, p |-> 0]
NoToast == [message |-> "", type |-> ""]
Toast(m, t) == [message |-> m, type |-> t]

VARIABLES
    mapId,              \* this.mapId (NoMap when unset)
    categories,         \* this.categories
    capabilities,       \* this.capabilities
    capRef,             \* identity of each live capability object
    selectedIds,        \* this.selectedIds
    applyColorToAll,    \* this.applyColorToAll
    changedColorIds,    \* this.changedColorIds
    hasUnsavedChanges,  \* this.hasUnsavedChanges
    history,            \* this.history
    historyIndex,       \* this.historyIndex (0-based, -1 when empty)
    toastState,         \* toastMessage / toastType of the last toast
    inFlight,           \* the bulkUpdateCapabilities / moveCapability call awaited
    held,               \* the capability object a suspended handleDrop holds
    loads,              \* the map loads that are awaited, and those completed
    searchTerm,         \* this.searchTerm, a sequence of characters
    viewFilter,         \* this.viewFilter
    activeFilters,      \* this.activeFilters
    selectedPhaseFilters, \* this.selectedPhaseFilters
    selectedSizeFilters,  \* this.selectedSizeFilters
    rendered,           \* what the last evaluation of categoriesWithCapabilities gave
    child,              \* the fields of the child component that is open
    server,             \* the capabilities the server has persisted
    budget,             \* remaining saveHistory / undo steps to explore
    prior               \* what the last handler was and the snapshot it found

\* the fields of the suspended handlers and of the derived view
ext == <<held, loads, searchTerm, viewFilter, activeFilters, selectedPhaseFilters,
         selectedSizeFilters, rendered, child, server>>

vars == <<mapId, categories, capabilities, capRef, selectedIds, applyColorToAll,
          changedColorIds, hasUnsavedChanges, history, historyIndex, toastState,
          inFlight, budget, prior, held, loads, searchTerm, viewFilter,
          activeFilters, selectedPhaseFilters, selectedSizeFilters, rendered, child,
          server>>

\* no call is awaited
NoCall == [op |-> "", ids |-> {}]

\* no handleDrop is suspended: live is the held object's index in
\* capabilities (0 when it is not among them), h and p its place in history
NoHeld == [live |-> 0, h |-> 0, p |-> 0, newCategoryId |-> 0]
\* no load is awaited and none has completed
NoLoads == [pending |-> {}, completed |-> <<>>, issued |-> 0]
\* the getter has not been evaluated since the last change
NotRendered == [by |-> "", value |-> <<>>]
\* no child component is open
NoChild == [component |-> ""]
\* the server's records are not followed
NoServer == [followed |-> FALSE]

\* the initial values of the fields of the derived view, nothing suspended
ExtIdle ==
    /\ held = NoHeld
    /\ loads = NoLoads
    /\ searchTerm = <<>>
    /\ viewFilter = "all"
    /\ activeFilters = {}
    /\ selectedPhaseFilters = {}
    /\ selectedSizeFilters = {}
    /\ rendered = NotRendered
    /\ child = NoChild
    /\ server = NoServer

\* the snapshot the history records
Snapshot == [categories |-> categories, capabilities |-> capabilities]

\* prior is an observer of the run, not a field of the component: after a
\* handler that changed anything it names the handler when that was an undo or
\* a delete, with the snapshot the handler started from and the handler named
\* before it
NoPrior ==
    [op |-> "", snapshot |-> [categories |-> <<>>, capabilities |-> <<>>], after |-> ""]
Observed(op) == [op |-> op, snapshot |-> Snapshot, after |-> prior.op]

\* ---------------------------------------------------------------- helpers
Range(s) == {s[i] : i \in DOMAIN s}

RECURSIVE SelectSeqIdx(_, _, _)
\* indices i (ascending) of s with keep[i], from position i on
SelectSeqIdx(s, keep, i) ==
    IF i > Len(s) THEN <<>>
    ELSE IF keep[i] THEN <<i>> \o SelectSeqIdx(s, keep, i + 1)
    ELSE SelectSeqIdx(s, keep, i + 1)

\* Array.prototype.find by Id: index of the first match, 0 when none
FindIndex(caps, capId) ==
    IF \E i \in DOMAIN caps : caps[i].Id = capId
    THEN CHOOSE i \in DOMAIN caps :
            /\ caps[i].Id = capId
            /\ \A j \in DOMAIN caps : caps[j].Id = capId => i <= j
    ELSE 0

RECURSIVE InsertSorted(_, _)
InsertSorted(sorted, x) ==
    IF sorted = <<>> THEN <<x>>
    ELSE IF x.Sort_Order__c < sorted[1].Sort_Order__c THEN <<x>> \o sorted
    ELSE <<sorted[1]>> \o InsertSorted(Tail(sorted), x)

RECURSIVE SortBySortOrder(_)
\* stable sort by Sort_Order__c ascending
SortBySortOrder(s) ==
    IF s = <<>> THEN <<>>
    ELSE InsertSorted(SortBySortOrder(SubSeq(s, 1, Len(s) - 1)), s[Len(s)])

NoRefs(caps) == [i \in DOMAIN caps |-> NoRef]

\* ---------------------------------------------------------------- history
cannotUndo == historyIndex <= 0
cannotRedo == historyIndex >= Len(history) - 1

\* saveHistory with the cursor set to history.length instead of length - 1
saveHistory_IndexIsLength(hist, idx, cats, caps, refs) ==
    LET sliced == SubSeq(hist, 1, idx + 1)
        pushed == Append(sliced, [categories |-> cats, capabilities |-> caps])
        over   == Len(pushed) > MaxHistory
        final  == IF over THEN Tail(pushed) ELSE pushed
    IN [history |-> final,
        historyIndex |-> Len(final),
        capRef |-> [i \in DOMAIN refs |-> NoRef]]

\* saveHistory without the slice to the cursor: the redo tail is kept
saveHistory_NoSlice(hist, idx, cats, caps, refs) ==
    LET pushed == Append(hist, [categories |-> cats, capabilities |-> caps])
        over   == Len(pushed) > MaxHistory
        final  == IF over THEN Tail(pushed) ELSE pushed
        keep(r) == IF r.h = 0 THEN NoRef
                   ELSE IF over
                        THEN (IF r.h = 1 THEN NoRef ELSE [h |-> r.h - 1, p |-> r.p])
                        ELSE r
    IN [history |-> final,
        historyIndex |-> Len(final) - 1,
        capRef |-> [i \in DOMAIN refs |-> keep(refs[i])]]

\* saveHistory with pop() in place of shift(): beyond the cap the newest entry goes
saveHistory_EvictNewest(hist, idx, cats, caps, refs) ==
    LET sliced == SubSeq(hist, 1, idx + 1)
        pushed == Append(sliced, [categories |-> cats, capabilities |-> caps])
        over   == Len(pushed) > MaxHistory
        final  == IF over THEN SubSeq(pushed, 1, Len(pushed) - 1) ELSE pushed
        keep(r) == IF r.h = 0 \/ r.h > idx + 1 THEN NoRef ELSE r
    IN [history |-> final,
        historyIndex |-> Len(final) - 1,
        capRef |-> [i \in DOMAIN refs |-> keep(refs[i])]]

\* saveHistory: the values of history, historyIndex after the call, and what
\* the live objects' references to history entries have become
saveHistory(hist, idx, cats, caps, refs) ==
    LET sliced == SubSeq(hist, 1, idx + 1)
        pushed == Append(sliced, [categories |-> cats, capabilities |-> caps])
        over   == Len(pushed) > MaxHistory
        final  == IF over THEN Tail(pushed) ELSE pushed
        keep(r) == IF r.h = 0 \/ r.h > idx + 1 THEN NoRef
                   ELSE IF over
                        THEN (IF r.h = 1 THEN NoRef ELSE [h |-> r.h - 1, p |-> r.p])
                        ELSE r
    IN [history |-> final,
        historyIndex |-> Len(final) - 1,
        capRef |-> [i \in DOMAIN refs |-> keep(refs[i])]]

\* restoreFromHistory at index idx: the live fields become the entry's arrays
restoreFromHistory(idx) ==
    IF idx + 1 \in DOMAIN history
    THEN /\ categories' = history[idx + 1].categories
         /\ capabilities' = history[idx + 1].capabilities
         /\ capRef' = [p \in DOMAIN history[idx + 1].capabilities |->
                          [h |-> idx + 1, p |-> p]]
    ELSE UNCHANGED <<categories, capabilities, capRef>>

\* budget bounds the exploration: push counts saveHistory calls, undo counts
\* undo steps, step counts the runs of the handlers that change more than the
\* selection (but for undo and redo, which the history itself bounds)
CanStep == budget.step # 0
Stepped == [budget EXCEPT !.step = IF @ > 0 THEN @ - 1 ELSE @]
CanPush == budget.push # 0 /\ CanStep
Pushed == [Stepped EXCEPT !.push = IF @ > 0 THEN @ - 1 ELSE @]
CanUndo == budget.undo # 0
Undone == [budget EXCEPT !.undo = IF @ > 0 THEN @ - 1 ELSE @]

\* handleUndo guarded by historyIndex >= 0 instead of > 0
handleUndo_NoGuard ==
    /\ CanUndo
    /\ IF historyIndex >= 0
       THEN /\ historyIndex' = historyIndex - 1
            /\ restoreFromHistory(historyIndex - 1)
            /\ toastState' = Toast("Undo", "")
            /\ budget' = Undone
            /\ prior' = Observed("undo")
       ELSE UNCHANGED <<historyIndex, categories, capabilities, capRef, toastState,
                        budget, prior>>
    /\ UNCHANGED <<inFlight, mapId, selectedIds, applyColorToAll, changedColorIds,
                   hasUnsavedChanges, history>>

handleUndo ==
    /\ CanUndo
    /\ IF historyIndex > 0
       THEN /\ historyIndex' = historyIndex - 1
            /\ restoreFromHistory(historyIndex - 1)
            /\ toastState' = Toast("Undo", "")
            /\ budget' = Undone
            /\ prior' = Observed("undo")
       ELSE UNCHANGED <<historyIndex, categories, capabilities, capRef, toastState,
                        budget, prior>>
    /\ UNCHANGED <<inFlight, mapId, selectedIds, applyColorToAll, changedColorIds,
                   hasUnsavedChanges, history>>

handleRedo ==
    /\ IF historyIndex < Len(history) - 1
       THEN /\ historyIndex' = historyIndex + 1
            /\ restoreFromHistory(historyIndex + 1)
            /\ toastState' = Toast("Redo", "")
            /\ prior' = NoPrior
       ELSE UNCHANGED <<historyIndex, categories, capabilities, capRef, toastState,
                        prior>>
    /\ UNCHANGED <<inFlight, mapId, selectedIds, applyColorToAll, changedColorIds,
                   hasUnsavedChanges, history, budget>>

\* ------------------------------------------------------------ load / open
\* A capability as the server returns it
Cap(id, cat, ord, size, phase, color) ==
    [Id |-> id, Capability_Category__c |-> cat, Sort_Order__c |-> ord,
     Size__c |-> size, Phase__c |-> phase, Color__c |-> color,
     Hours_Override__c |-> NoOverride, Calculated_Hours__c |-> 0]

Category(id, ord) == [Id |-> id, Sort_Order__c |-> ord]

\* category lists a load can return (in either order: loadMapData sorts them)
CategoryResponses ==
    {<<Category(1, 0), Category(2, 1)>>, <<Category(2, 1), Category(1, 0)>>}

\* capability lists a load can return: capabilities 1..n, alternately in
\* category 1 and 2, at sort position Id - 1, sized TBD, in Phase 1, no colour
RECURSIVE CapLists(_)
CapLists(n) ==
    IF n = 0 THEN {<<>>}
    ELSE {Append(l, Cap(n, ((n - 1) % 2) + 1, n - 1, "TBD", "Phase 1", NoColor)) :
             l \in CapLists(n - 1)}

LoadResponses ==
    {[categories |-> cs, capabilities |-> l] :
        cs \in CategoryResponses, l \in UNION {CapLists(n) : n \in 0 .. NumCaps}}

\* what the server does with a load: it answers with data, or the call fails
LoadOutcomes ==
    {[ok |-> TRUE, data |-> d] : d \in LoadResponses}
        \cup {[ok |-> FALSE, data |-> [categories |-> <<>>, capabilities |-> <<>>]]}

\* loadMapData: the values of categories, capabilities, toast after the call
loadMapData(mid, data, ok) ==
    IF mid = NoMap
    THEN [categories |-> categories, capabilities |-> capabilities,
          capRef |-> capRef, toastState |-> toastState]
    ELSE IF ok
    THEN [categories |-> SortBySortOrder(data.categories),
          capabilities |-> data.capabilities,
          capRef |-> NoRefs(data.capabilities),
          toastState |-> toastState]
    ELSE [categories |-> categories, capabilities |-> capabilities,
          capRef |-> capRef, toastState |-> Toast("Error loading data", "error")]

\* the common tail of the handlers that reload and then snapshot:
\* await this.loadMapData(); this.markModified(); this.saveHistory();
ReloadAndSave(data, ok, toastAfter) ==
    LET l == loadMapData(mapId, data, ok)
        s == saveHistory(history, historyIndex, l.categories, l.capabilities, l.capRef)
    IN /\ CanPush
       /\ categories' = l.categories
       /\ capabilities' = l.capabilities
       /\ capRef' = s.capRef
       /\ history' = s.history
       /\ historyIndex' = s.historyIndex
       /\ toastState' = IF toastAfter = NoToast THEN l.toastState ELSE toastAfter
       /\ budget' = Pushed
       /\ prior' = NoPrior
       /\ UNCHANGED <<inFlight, mapId, selectedIds, applyColorToAll, changedColorIds,
                      hasUnsavedChanges>>

handleProjectSelected(newMapId, mapOk, data, ok) ==
    IF mapOk
    THEN LET l == loadMapData(newMapId, data, ok)
             s == saveHistory(history, historyIndex, l.categories, l.capabilities,
                              l.capRef)
         IN /\ CanPush
            /\ mapId' = newMapId
            /\ categories' = l.categories
            /\ capabilities' = l.capabilities
            /\ capRef' = s.capRef
            /\ history' = s.history
            /\ historyIndex' = s.historyIndex
            /\ toastState' = l.toastState
            /\ budget' = Pushed
            /\ prior' = NoPrior
            /\ UNCHANGED <<inFlight, selectedIds, applyColorToAll, changedColorIds,
                           hasUnsavedChanges>>
    ELSE /\ toastState' = Toast("Error: ", "error")
         /\ UNCHANGED <<inFlight, mapId, categories, capabilities, capRef, selectedIds,
                        applyColorToAll, changedColorIds, hasUnsavedChanges, history,
                        historyIndex>>
         /\ CanStep
         /\ budget' = Stepped
         /\ prior' = NoPrior

handleFavoriteClick(newMapId, data, ok) ==
    IF ok
    THEN LET caps == data.capabilities
             cats == SortBySortOrder(data.categories)
             s == saveHistory(history, historyIndex, cats, caps, NoRefs(caps))
         IN /\ CanPush
            /\ mapId' = newMapId
            /\ categories' = cats
            /\ capabilities' = caps
            /\ capRef' = s.capRef
            /\ history' = s.history
            /\ historyIndex' = s.historyIndex
            /\ budget' = Pushed
            /\ prior' = NoPrior
            /\ UNCHANGED <<inFlight, selectedIds, applyColorToAll, changedColorIds,
                           hasUnsavedChanges, toastState>>
    ELSE /\ toastState' = Toast("Error loading map", "error")
         /\ UNCHANGED <<inFlight, mapId, categories, capabilities, capRef, selectedIds,
                        applyColorToAll, changedColorIds, hasUnsavedChanges, history,
                        historyIndex>>
         /\ CanStep
         /\ budget' = Stepped
         /\ prior' = NoPrior

handleCapabilitySaved(data, ok) == ReloadAndSave(data, ok, NoToast)

handleCategorySaved(data, ok) == ReloadAndSave(data, ok, NoToast)

handleTemplatesApplied(data, ok) ==
    ReloadAndSave(data, ok, Toast("Template applied", "success"))

handleBulkTeamApplied(data, ok) == ReloadAndSave(data, ok, Toast("Updated team", ""))

\* -------------------------------------------------------------- selection
toggleSelection(capId) ==
    /\ selectedIds' = IF capId \in selectedIds THEN selectedIds \ {capId}
                      ELSE selectedIds \cup {capId}
    /\ UNCHANGED <<inFlight, mapId, categories, capabilities, capRef, applyColorToAll,
                   changedColorIds, hasUnsavedChanges, history, historyIndex,
                   toastState, budget, prior>>

\* a click on a rendered tile
handleTileClick(capId, shiftKey) ==
    /\ capId \in {c.Id : c \in Range(capabilities)}
    /\ IF shiftKey
       THEN /\ selectedIds' = {capId}
            /\ UNCHANGED <<inFlight, mapId, categories, capabilities, capRef, applyColorToAll,
                           changedColorIds, hasUnsavedChanges, history, historyIndex,
                           toastState, budget, prior>>
       ELSE toggleSelection(capId)

\* ------------------------------------------------------------ move / delete
\* the write capability.Capability_Category__c = newCategoryId reaches the
\* history entry whose object the live capability is
WriteThrough(hist, r, newCategoryId) ==
    IF r.h = 0 THEN hist
    ELSE [hist EXCEPT ![r.h].capabilities[r.p].Capability_Category__c = newCategoryId]

handleDrop(capId, newCategoryId, ok) ==
    LET i == FindIndex(capabilities, capId)
    IN IF i # 0 /\ capabilities[i].Capability_Category__c # newCategoryId
       THEN IF ok
            THEN LET caps == [capabilities EXCEPT
                                 ![i].Capability_Category__c = newCategoryId]
                     hist == WriteThrough(history, capRef[i], newCategoryId)
                     s == saveHistory(hist, historyIndex, categories, caps, capRef)
                 IN /\ CanPush
                    /\ capabilities' = caps
                    /\ capRef' = s.capRef
                    /\ history' = s.history
                    /\ historyIndex' = s.historyIndex
                    /\ toastState' = Toast("Moved", "")
                    /\ budget' = Pushed
                    /\ prior' = NoPrior
                    /\ UNCHANGED <<inFlight, mapId, categories, selectedIds, applyColorToAll,
                                   changedColorIds, hasUnsavedChanges>>
            ELSE /\ toastState' = Toast("Error moving", "error")
                 /\ UNCHANGED <<inFlight, mapId, categories, capabilities, capRef, selectedIds,
                                applyColorToAll, changedColorIds, hasUnsavedChanges,
                                history, historyIndex>>
                 /\ CanStep
                 /\ budget' = Stepped
                 /\ prior' = NoPrior
       ELSE UNCHANGED vars

\* handleDrop up to its await: the capability object is found and held, the
\* move is sent.  The column dropped on is one of the rendered categories.
handleDropCall(capId, newCategoryId) ==
    LET i == FindIndex(capabilities, capId)
    IN /\ inFlight = NoCall
       /\ \E k \in DOMAIN categories : categories[k].Id = newCategoryId
       /\ i # 0
       /\ capabilities[i].Capability_Category__c # newCategoryId
       /\ inFlight' = [op |-> "handleDrop", ids |-> {capId}]
       /\ held' = [live |-> i, h |-> capRef[i].h, p |-> capRef[i].p,
                   newCategoryId |-> newCategoryId]
       /\ UNCHANGED <<mapId, categories, capabilities, capRef, selectedIds,
                      applyColorToAll, changedColorIds, hasUnsavedChanges, history,
                      historyIndex, toastState, budget, prior, loads, searchTerm,
                      viewFilter, activeFilters, selectedPhaseFilters,
                      selectedSizeFilters, rendered, child, server>>

\* handleDrop after its await, with the capability looked up again in the
\* capabilities of that moment instead of the object held since the call
handleDropReturn_FindAgain(ok) ==
    /\ inFlight.op = "handleDrop"
    /\ IF ok
       THEN LET i == FindIndex(capabilities, CHOOSE c \in inFlight.ids : TRUE)
                caps == IF i # 0
                        THEN [capabilities EXCEPT
                                 ![i].Capability_Category__c = held.newCategoryId]
                        ELSE capabilities
                hist == IF i # 0
                        THEN WriteThrough(history, capRef[i], held.newCategoryId)
                        ELSE history
                s == saveHistory(hist, historyIndex, categories, caps, capRef)
            IN /\ CanPush
               /\ capabilities' = caps
               /\ capRef' = s.capRef
               /\ history' = s.history
               /\ historyIndex' = s.historyIndex
               /\ toastState' = Toast("Moved", "")
               /\ budget' = Pushed
       ELSE /\ toastState' = Toast("Error moving", "error")
            /\ CanStep
            /\ budget' = Stepped
            /\ UNCHANGED <<capabilities, capRef, history, historyIndex>>
    /\ inFlight' = NoCall
    /\ held' = NoHeld
    /\ prior' = [NoPrior EXCEPT !.op = "handleDrop",
                                !.after = IF held.live = 0 THEN "replaced" ELSE ""]
    /\ UNCHANGED <<mapId, categories, selectedIds, applyColorToAll, changedColorIds,
                   hasUnsavedChanges, loads, searchTerm, viewFilter, activeFilters,
                   selectedPhaseFilters, selectedSizeFilters, rendered, child, server>>

\* handleDrop after its await: the write goes to the object held since the
\* call, wherever that object is by now (among the capabilities, in a history
\* entry, both or neither); then this.capabilities is copied and saveHistory
\* runs.  prior notes whether the held object was still among the capabilities.
handleDropReturn(ok) ==
    /\ inFlight.op = "handleDrop"
    /\ IF ok
       THEN LET caps == IF held.live # 0
                        THEN [capabilities EXCEPT
                                 ![held.live].Capability_Category__c =
                                     held.newCategoryId]
                        ELSE capabilities
                hist == WriteThrough(history, [h |-> held.h, p |-> held.p],
                                     held.newCategoryId)
                s == saveHistory(hist, historyIndex, categories, caps, capRef)
            IN /\ CanPush
               /\ capabilities' = caps
               /\ capRef' = s.capRef
               /\ history' = s.history
               /\ historyIndex' = s.historyIndex
               /\ toastState' = Toast("Moved", "")
               /\ budget' = Pushed
       ELSE /\ toastState' = Toast("Error moving", "error")
            /\ CanStep
            /\ budget' = Stepped
            /\ UNCHANGED <<capabilities, capRef, history, historyIndex>>
    /\ inFlight' = NoCall
    /\ held' = NoHeld
    /\ prior' = [NoPrior EXCEPT !.op = "handleDrop",
                                !.after = IF held.live = 0 THEN "replaced" ELSE ""]
    /\ UNCHANGED <<mapId, categories, selectedIds, applyColorToAll, changedColorIds,
                   hasUnsavedChanges, loads, searchTerm, viewFilter, activeFilters,
                   selectedPhaseFilters, selectedSizeFilters, rendered, child, server>>

\* where the held object is after a handler that ran while handleDrop was
\* suspended.  saveHistory drops or shifts the history entry that holds it:
HeldAfterSave(hd) ==
    LET r == saveHistory(history, historyIndex, categories, capabilities,
                         <<[h |-> hd.h, p |-> hd.p]>>).capRef[1]
    IN [hd EXCEPT !.h = r.h, !.p = r.p]

\* a reload replaces the capabilities by new objects when it succeeds, and
\* saveHistory runs either way
HeldAfterReload(ok) ==
    IF held = NoHeld \/ ~CanPush THEN held
    ELSE HeldAfterSave([held EXCEPT !.live = IF ok THEN 0 ELSE @])

\* restoreFromHistory makes the objects of the entry at the cursor the
\* capabilities
HeldAfterRestore ==
    IF held = NoHeld \/ historyIndex' = historyIndex THEN held
    ELSE [held EXCEPT !.live = IF held.h = historyIndex' + 1 THEN held.p ELSE 0]

\* deleteCapabilities keeps the objects that are not deleted, in their order
HeldAfterDelete(confirmed, ok) ==
    IF held = NoHeld \/ selectedIds = {} \/ ~confirmed \/ ~ok THEN held
    ELSE HeldAfterSave(
            [held EXCEPT !.live =
                IF @ = 0 \/ capabilities[@].Id \in selectedIds THEN 0
                ELSE Cardinality({j \in 1 .. @ :
                                     capabilities[j].Id \notin selectedIds})])

\* deleteCapabilities filtering the capabilities before the calls are awaited
deleteCapabilities_FilterFirst(ids, ok) ==
    LET keep == [i \in DOMAIN capabilities |-> capabilities[i].Id \notin ids]
        idx  == SelectSeqIdx(capabilities, keep, 1)
        caps == [k \in DOMAIN idx |-> capabilities[idx[k]]]
        refs == [k \in DOMAIN idx |-> capRef[idx[k]]]
        s == saveHistory(history, historyIndex, categories, caps, refs)
    IN IF ok
       THEN [capabilities |-> caps, capRef |-> s.capRef, history |-> s.history,
             historyIndex |-> s.historyIndex, toastState |-> Toast("Deleted", ""),
             budget |-> Pushed]
       ELSE [capabilities |-> caps, capRef |-> refs, history |-> history,
             historyIndex |-> historyIndex,
             toastState |-> Toast("Error deleting", "error"), budget |-> Stepped]

\* deleteCapabilities without the call of saveHistory
deleteCapabilities_NoSave(ids, ok) ==
    IF ok
    THEN LET keep == [i \in DOMAIN capabilities |-> capabilities[i].Id \notin ids]
             idx  == SelectSeqIdx(capabilities, keep, 1)
         IN [capabilities |-> [k \in DOMAIN idx |-> capabilities[idx[k]]],
             capRef |-> [k \in DOMAIN idx |-> capRef[idx[k]]],
             history |-> history, historyIndex |-> historyIndex,
             toastState |-> Toast("Deleted", ""), budget |-> Pushed]
    ELSE [capabilities |-> capabilities, capRef |-> capRef, history |-> history,
          historyIndex |-> historyIndex,
          toastState |-> Toast("Error deleting", "error"), budget |-> Stepped]

\* deleteCapabilities(ids): the values of the fields it writes
deleteCapabilities(ids, ok) ==
    IF ok
    THEN LET keep == [i \in DOMAIN capabilities |-> capabilities[i].Id \notin ids]
             idx  == SelectSeqIdx(capabilities, keep, 1)
             caps == [k \in DOMAIN idx |-> capabilities[idx[k]]]
             refs == [k \in DOMAIN idx |-> capRef[idx[k]]]
             s == saveHistory(history, historyIndex, categories, caps, refs)
         IN [capabilities |-> caps, capRef |-> s.capRef, history |-> s.history,
             historyIndex |-> s.historyIndex, toastState |-> Toast("Deleted", ""),
             budget |-> Pushed]
    ELSE [capabilities |-> capabilities, capRef |-> capRef, history |-> history,
          historyIndex |-> historyIndex,
          toastState |-> Toast("Error deleting", "error"), budget |-> Stepped]

handleBulkDelete(confirmed, ok) ==
    IF selectedIds # {} /\ confirmed
    THEN LET d == deleteCapabilities(selectedIds, ok)
         IN /\ IF ok THEN CanPush ELSE CanStep
            /\ capabilities' = d.capabilities
            /\ capRef' = d.capRef
            /\ history' = d.history
            /\ historyIndex' = d.historyIndex
            /\ toastState' = d.toastState
            /\ budget' = d.budget
            /\ prior' = IF ok THEN Observed("delete") ELSE NoPrior
            /\ selectedIds' = {}
            /\ UNCHANGED <<inFlight, mapId, categories, applyColorToAll, changedColorIds,
                           hasUnsavedChanges>>
    ELSE UNCHANGED vars

\* ------------------------------------------------------------ bulk updates
\* capabilities.map(cap => selectedIds.has(cap.Id) ? {...cap, [field]: value}
\*                                                 : {...cap})
\* JavaScript a || b on hours: null and 0 are falsy
OrElse(a, b) == IF a = NoOverride \/ a = 0 THEN b ELSE a

\* getHoursForSize: the map's configured hours of a size, 0 for TBD or no map
getHoursForSize(size) ==
    IF mapId = NoMap \/ ~Truthy(size) \/ size = "TBD" THEN 0
    ELSE IF size = "XL" THEN OrElse(capabilityMap.XL_Hours__c, 0)
    ELSE 0

\* the capabilities after handleBulkApplied's map over them: the capabilities
\* of ids get the size and the hours computed for it
bulkSizeUpdate(caps, ids, value) ==
    [i \in DOMAIN caps |->
        IF caps[i].Id \in ids
        THEN [caps[i] EXCEPT
                 !.Size__c = value,
                 !.Calculated_Hours__c =
                     OrElse(caps[i].Hours_Override__c, getHoursForSize(value))]
        ELSE caps[i]]

handleBulkApplied(value) ==
    LET caps == bulkSizeUpdate(capabilities, selectedIds, value)
        s == saveHistory(history, historyIndex, categories, caps, NoRefs(caps))
    IN /\ CanPush
       /\ capabilities' = caps
       /\ capRef' = s.capRef
       /\ history' = s.history
       /\ historyIndex' = s.historyIndex
       /\ toastState' = Toast("Updated size", "")
       /\ budget' = Pushed
       /\ prior' = NoPrior
       /\ UNCHANGED <<inFlight, mapId, categories, selectedIds, applyColorToAll,
                      changedColorIds, hasUnsavedChanges>>

\* the phase's colour taken from the last capability that has one
PhaseColorOf_LastSeen(caps, value) ==
    LET has == {i \in DOMAIN caps :
                   caps[i].Phase__c = value /\ Truthy(caps[i].Color__c)}
    IN IF has = {} THEN NoColor
       ELSE caps[CHOOSE i \in has : \A j \in has : i >= j].Color__c

\* the colour of the first capability in (phase = value) that has a colour
PhaseColorOf(caps, value) ==
    LET has == {i \in DOMAIN caps :
                   caps[i].Phase__c = value /\ Truthy(caps[i].Color__c)}
    IN IF has = {} THEN NoColor
       ELSE caps[CHOOSE i \in has : \A j \in has : i <= j].Color__c

\* the capabilities after handleBulkPhaseApplied's map over them: the
\* capabilities of ids get the phase, and the phase's colour if it has one
bulkPhaseUpdate(caps, ids, value) ==
    LET phaseColor == PhaseColorOf(caps, value)
    IN [i \in DOMAIN caps |->
           IF caps[i].Id \in ids
           THEN [caps[i] EXCEPT
                    !.Phase__c = value,
                    !.Color__c = IF Truthy(phaseColor) THEN phaseColor ELSE @]
           ELSE caps[i]]

handleBulkPhaseApplied(value, ok) ==
    LET caps == bulkPhaseUpdate(capabilities, selectedIds, value)
        s == saveHistory(history, historyIndex, categories, caps, NoRefs(caps))
    IN /\ CanPush
       /\ capabilities' = caps
       /\ capRef' = s.capRef
       /\ history' = s.history
       /\ historyIndex' = s.historyIndex
       /\ toastState' = Toast("Updated phase", "")
       /\ budget' = Pushed
       /\ prior' = NoPrior
       /\ UNCHANGED <<inFlight, mapId, categories, selectedIds, applyColorToAll,
                      changedColorIds, hasUnsavedChanges>>

\* the capabilities after handleResetSize's map over them
resetSizeUpdate(caps, ids) ==
    [i \in DOMAIN caps |->
        IF caps[i].Id \in ids
        THEN [caps[i] EXCEPT
                 !.Size__c = "TBD",
                 !.Calculated_Hours__c = OrElse(caps[i].Hours_Override__c, 0)]
        ELSE caps[i]]

handleResetSize(ok) ==
    IF selectedIds = {} THEN UNCHANGED vars
    ELSE IF ok
    THEN /\ capabilities' = resetSizeUpdate(capabilities, selectedIds)
         /\ capRef' = NoRefs(capabilities)
         /\ toastState' = Toast("Reset size", "")
         /\ UNCHANGED <<inFlight, mapId, categories, selectedIds, applyColorToAll,
                        changedColorIds, hasUnsavedChanges, history, historyIndex>>
         /\ CanStep
         /\ budget' = Stepped
         /\ prior' = NoPrior
    ELSE /\ toastState' = Toast("Error resetting size", "error")
         /\ UNCHANGED <<inFlight, mapId, categories, capabilities, capRef, selectedIds,
                        applyColorToAll, changedColorIds, hasUnsavedChanges, history,
                        historyIndex>>
         /\ CanStep
         /\ budget' = Stepped
         /\ prior' = NoPrior

handleResetPhase(ok) ==
    IF selectedIds = {} THEN UNCHANGED vars
    ELSE IF ok
    THEN /\ capabilities' = [i \in DOMAIN capabilities |->
                                IF capabilities[i].Id \in selectedIds
                                THEN [capabilities[i] EXCEPT !.Phase__c = "TBD"]
                                ELSE capabilities[i]]
         /\ capRef' = NoRefs(capabilities)
         /\ toastState' = Toast("Reset phase to TBD", "")
         /\ UNCHANGED <<inFlight, mapId, categories, selectedIds, applyColorToAll,
                        changedColorIds, hasUnsavedChanges, history, historyIndex>>
         /\ CanStep
         /\ budget' = Stepped
         /\ prior' = NoPrior
    ELSE /\ toastState' = Toast("Error resetting phase", "error")
         /\ UNCHANGED <<inFlight, mapId, categories, capabilities, capRef, selectedIds,
                        applyColorToAll, changedColorIds, hasUnsavedChanges, history,
                        historyIndex>>
         /\ CanStep
         /\ budget' = Stepped
         /\ prior' = NoPrior

handleResetAllColors(confirmed, ok) ==
    IF (\A i \in DOMAIN capabilities : ~Truthy(capabilities[i].Color__c))
       \/ ~confirmed
    THEN UNCHANGED vars
    ELSE IF ok
    THEN /\ capabilities' = [i \in DOMAIN capabilities |->
                                [capabilities[i] EXCEPT !.Color__c = NoColor]]
         /\ capRef' = NoRefs(capabilities)
         /\ changedColorIds' = {}
         /\ hasUnsavedChanges' = FALSE
         /\ toastState' = Toast("Cleared colors", "")
         /\ UNCHANGED <<inFlight, mapId, categories, selectedIds, applyColorToAll, history,
                        historyIndex>>
         /\ CanStep
         /\ budget' = Stepped
         /\ prior' = NoPrior
    ELSE /\ toastState' = Toast("Error resetting colors", "error")
         /\ UNCHANGED <<inFlight, mapId, categories, capabilities, capRef, selectedIds,
                        applyColorToAll, changedColorIds, hasUnsavedChanges, history,
                        historyIndex>>
         /\ CanStep
         /\ budget' = Stepped
         /\ prior' = NoPrior

\* ----------------------------------------------------- colour / phase rules
\* phases of the selected capabilities (truthy ones)
phasesInSelection ==
    {capabilities[i].Phase__c : i \in {j \in DOMAIN capabilities :
        capabilities[j].Id \in selectedIds /\ Truthy(capabilities[j].Phase__c)}}

\* capabilities that have both a phase and a colour, by index
Mapped == {i \in DOMAIN capabilities :
              Truthy(capabilities[i].Phase__c) /\ Truthy(capabilities[i].Color__c)}

\* phaseColorMap[phase]: colour of the first mapped capability of the phase
phaseColorMap(phase) ==
    LET has == {i \in Mapped : capabilities[i].Phase__c = phase}
    IN IF has = {} THEN NoColor
       ELSE capabilities[CHOOSE i \in has : \A j \in has : i <= j].Color__c

\* colorPhaseMap where the last mapped capability of the colour wins
colorPhaseMap_LastSeen(color) ==
    LET has == {i \in Mapped : capabilities[i].Color__c = color}
    IN IF has = {} THEN NoPhase
       ELSE capabilities[CHOOSE i \in has : \A j \in has : i >= j].Phase__c

\* colorPhaseMap[color]: phase of the first mapped capability of the colour
colorPhaseMap(color) ==
    LET has == {i \in Mapped : capabilities[i].Color__c = color}
    IN IF has = {} THEN NoPhase
       ELSE capabilities[CHOOSE i \in has : \A j \in has : i <= j].Phase__c

\* conflicts that looks for the other colour among the selected capabilities
conflicts_AmongSelected(selectedColor) ==
    {phase \in phasesInSelection :
        /\ Truthy(phaseColorMap(phase))
        /\ phaseColorMap(phase) # selectedColor
        /\ \E i \in DOMAIN capabilities :
              /\ capabilities[i].Phase__c = phase
              /\ capabilities[i].Id \in selectedIds
              /\ Truthy(capabilities[i].Color__c)
              /\ capabilities[i].Color__c # selectedColor}

\* phases of the selection that already use a different colour on capabilities
\* outside the selection
conflicts(selectedColor) ==
    {phase \in phasesInSelection :
        /\ Truthy(phaseColorMap(phase))
        /\ phaseColorMap(phase) # selectedColor
        /\ \E i \in DOMAIN capabilities :
              /\ capabilities[i].Phase__c = phase
              /\ capabilities[i].Id \notin selectedIds
              /\ Truthy(capabilities[i].Color__c)
              /\ capabilities[i].Color__c # selectedColor}

\* affectedIds without the capabilities reached through their phase
affectedIds_SelectionOnly == selectedIds

\* selection plus every capability of a phase of the selection
affectedIds ==
    selectedIds \cup {capabilities[i].Id : i \in {j \in DOMAIN capabilities :
                          capabilities[j].Phase__c \in phasesInSelection}}

\* ApplyColor that does not record the capabilities it colours
ApplyColor_NoTrack(ids, selectedColor) ==
    /\ capabilities' = [i \in DOMAIN capabilities |->
                           IF capabilities[i].Id \in ids
                           THEN [capabilities[i] EXCEPT !.Color__c = selectedColor]
                           ELSE capabilities[i]]
    /\ capRef' = NoRefs(capabilities)
    /\ changedColorIds' = changedColorIds
    /\ hasUnsavedChanges' = TRUE
    /\ toastState' = Toast("Color applied", "")

\* the map that sets selectedColor on the capabilities whose Id is in ids
ApplyColor(ids, selectedColor) ==
    /\ capabilities' = [i \in DOMAIN capabilities |->
                           IF capabilities[i].Id \in ids
                           THEN [capabilities[i] EXCEPT !.Color__c = selectedColor]
                           ELSE capabilities[i]]
    /\ capRef' = NoRefs(capabilities)
    /\ changedColorIds' = changedColorIds \cup
                             {capabilities[i].Id : i \in {j \in DOMAIN capabilities :
                                 capabilities[j].Id \in ids}}
    /\ hasUnsavedChanges' = TRUE
    /\ toastState' = Toast("Color applied", "")

\* handleColorSelect that never takes the "all phases" branch
handleColorSelect_NoOverride(selectedColor) ==
    /\ IF selectedIds = {}
       THEN /\ toastState' = Toast("Select capabilities first", "warning")
            /\ UNCHANGED <<capabilities, capRef, changedColorIds, hasUnsavedChanges>>
       ELSE IF /\ Truthy(colorPhaseMap(selectedColor))
               /\ colorPhaseMap(selectedColor) \notin phasesInSelection
       THEN /\ toastState' = Toast("Cannot use", "warning")
            /\ UNCHANGED <<capabilities, capRef, changedColorIds, hasUnsavedChanges>>
       ELSE IF conflicts(selectedColor) # {}
       THEN /\ toastState' = Toast("Cannot change", "warning")
            /\ UNCHANGED <<capabilities, capRef, changedColorIds, hasUnsavedChanges>>
       ELSE ApplyColor(affectedIds, selectedColor)
    /\ UNCHANGED <<inFlight, mapId, categories, selectedIds, applyColorToAll, history,
                   historyIndex>>
    /\ CanStep
    /\ budget' = Stepped
    /\ prior' = NoPrior

handleColorSelect(selectedColor) ==
    /\ IF selectedIds = {}
       THEN /\ toastState' = Toast("Select capabilities first", "warning")
            /\ UNCHANGED <<capabilities, capRef, changedColorIds, hasUnsavedChanges>>
       ELSE IF applyColorToAll
       THEN ApplyColor(selectedIds, selectedColor)
       ELSE IF /\ Truthy(colorPhaseMap(selectedColor))
               /\ colorPhaseMap(selectedColor) \notin phasesInSelection
       THEN /\ toastState' = Toast("Cannot use", "warning")
            /\ UNCHANGED <<capabilities, capRef, changedColorIds, hasUnsavedChanges>>
       ELSE IF conflicts(selectedColor) # {}
       THEN /\ toastState' = Toast("Cannot change", "warning")
            /\ UNCHANGED <<capabilities, capRef, changedColorIds, hasUnsavedChanges>>
       ELSE ApplyColor(affectedIds, selectedColor)
    /\ UNCHANGED <<inFlight, mapId, categories, selectedIds, applyColorToAll, history,
                   historyIndex>>
    /\ CanStep
    /\ budget' = Stepped
    /\ prior' = NoPrior

handleApplyAllChange(checked) ==
    /\ applyColorToAll' = checked
    /\ UNCHANGED <<inFlight, mapId, categories, capabilities, capRef, selectedIds,
                   changedColorIds, hasUnsavedChanges, history, historyIndex,
                   toastState, budget, prior>>

\* handleSaveColors: sends the colours of the capabilities in changedColorIds
\* (one bulkUpdateCapabilities call per colour; ok: all of them resolve)
handleSaveColors(ok) ==
    /\ IF changedColorIds = {}
       THEN /\ toastState' = Toast("No color changes to save", "")
            /\ UNCHANGED <<changedColorIds, hasUnsavedChanges>>
       ELSE IF ok
       THEN /\ changedColorIds' = {}
            /\ hasUnsavedChanges' = FALSE
            /\ toastState' = Toast("Colors saved successfully", "")
       ELSE /\ toastState' = Toast("Error saving colors", "error")
            /\ UNCHANGED <<changedColorIds, hasUnsavedChanges>>
    /\ UNCHANGED <<inFlight, mapId, categories, capabilities, capRef, selectedIds,
                   applyColorToAll, history, historyIndex>>
    /\ CanStep
    /\ budget' = Stepped
    /\ prior' = NoPrior

\* ------------------------------------------- handlers around their await
\* handleResetSize up to its await: the identifiers of the selection are sent
handleResetSizeCall ==
    /\ selectedIds # {}
    /\ inFlight = NoCall
    /\ CanStep
    /\ inFlight' = [op |-> "handleResetSize", ids |-> selectedIds]
    /\ UNCHANGED <<mapId, categories, capabilities, capRef, selectedIds,
                   applyColorToAll, changedColorIds, hasUnsavedChanges, history,
                   historyIndex, toastState, budget, prior>>

\* handleResetSize from its await on: the call has resolved (ok) or rejected
handleResetSizeReturn(ok) ==
    /\ inFlight.op = "handleResetSize"
    /\ inFlight' = NoCall
    /\ IF ok
       THEN /\ capabilities' = resetSizeUpdate(capabilities, selectedIds)
            /\ capRef' = NoRefs(capabilities)
            /\ toastState' = Toast("Reset size", "")
       ELSE /\ toastState' = Toast("Error resetting size", "error")
            /\ UNCHANGED <<capabilities, capRef>>
    /\ UNCHANGED <<mapId, categories, selectedIds, applyColorToAll, changedColorIds,
                   hasUnsavedChanges, history, historyIndex>>
    /\ budget' = Stepped
    /\ prior' = NoPrior

\* the capabilities after handleResetPhase's map over them
resetPhaseUpdate(caps, ids) ==
    [i \in DOMAIN caps |->
        IF caps[i].Id \in ids THEN [caps[i] EXCEPT !.Phase__c = "TBD"] ELSE caps[i]]

\* handleResetPhase from its await on, with the update made whether the call
\* resolved or not
handleResetPhaseReturn_ApplyAlways(ok) ==
    /\ inFlight.op = "handleResetPhase"
    /\ inFlight' = NoCall
    /\ capabilities' = resetPhaseUpdate(capabilities, selectedIds)
    /\ capRef' = NoRefs(capabilities)
    /\ toastState' = IF ok THEN Toast("Reset phase to TBD", "")
                     ELSE Toast("Error resetting phase", "error")
    /\ UNCHANGED <<mapId, categories, selectedIds, applyColorToAll, changedColorIds,
                   hasUnsavedChanges, history, historyIndex>>
    /\ budget' = Stepped
    /\ prior' = NoPrior

\* handleResetPhase up to its await
handleResetPhaseCall ==
    /\ selectedIds # {}
    /\ inFlight = NoCall
    /\ CanStep
    /\ inFlight' = [op |-> "handleResetPhase", ids |-> selectedIds]
    /\ UNCHANGED <<mapId, categories, capabilities, capRef, selectedIds,
                   applyColorToAll, changedColorIds, hasUnsavedChanges, history,
                   historyIndex, toastState, budget, prior>>

\* handleResetPhase from its await on
handleResetPhaseReturn(ok) ==
    /\ inFlight.op = "handleResetPhase"
    /\ inFlight' = NoCall
    /\ IF ok
       THEN /\ capabilities' = resetPhaseUpdate(capabilities, selectedIds)
            /\ capRef' = NoRefs(capabilities)
            /\ toastState' = Toast("Reset phase to TBD", "")
       ELSE /\ toastState' = Toast("Error resetting phase", "error")
            /\ UNCHANGED <<capabilities, capRef>>
    /\ UNCHANGED <<mapId, categories, selectedIds, applyColorToAll, changedColorIds,
                   hasUnsavedChanges, history, historyIndex>>
    /\ budget' = Stepped
    /\ prior' = NoPrior

\* Ctrl+A and Escape of handleKeyDown: select all, select none
handleKeyDown(key) ==
    /\ selectedIds' = IF key = "a" THEN {c.Id : c \in Range(capabilities)} ELSE {}
    /\ UNCHANGED <<inFlight, mapId, categories, capabilities, capRef, applyColorToAll,
                   changedColorIds, hasUnsavedChanges, history, historyIndex,
                   toastState, budget, prior>>

\* ------------------------------------------------------------ specification
\* the component as constructed: no map, empty snapshot, empty history
Init ==
    /\ mapId = NoMap
    /\ categories = <<>>
    /\ capabilities = <<>>
    /\ capRef = <<>>
    /\ selectedIds = {}
    /\ applyColorToAll = FALSE
    /\ changedColorIds = {}
    /\ hasUnsavedChanges = FALSE
    /\ history = <<>>
    /\ historyIndex = 0 - 1
    /\ toastState = NoToast
    /\ inFlight = NoCall
    /\ budget = [push |-> MaxPushes, undo |-> Unlimited, step |-> Unlimited]
    /\ prior = NoPrior
    /\ ExtIdle

Next ==
    \/ \E m \in MapIds, mapOk \in BOOLEAN, r \in LoadOutcomes :
          handleProjectSelected(m, mapOk, r.data, r.ok)
          /\ UNCHANGED ext
    \/ \E r \in LoadOutcomes : handleCapabilitySaved(r.data, r.ok) /\ UNCHANGED ext
    \/ \E capId \in CapIds, shiftKey \in BOOLEAN : handleTileClick(capId, shiftKey)
          /\ UNCHANGED ext
    \/ \E capId \in CapIds, cat \in CatIds, ok \in BOOLEAN : handleDrop(capId, cat, ok)
          /\ UNCHANGED ext
    \/ \E confirmed \in BOOLEAN, ok \in BOOLEAN : handleBulkDelete(confirmed, ok) /\ UNCHANGED ext
    \/ handleUndo /\ UNCHANGED ext
    \/ handleRedo /\ UNCHANGED ext

Spec == Init /\ [][Next]_vars

\* -------------------------------------------- specification of the moves
\* capability lists of capabilities 1..n, each in one of the categories cats
RECURSIVE ListsIn(_, _)
ListsIn(n, cats) ==
    IF n = 0 THEN {<<>>}
    ELSE {Append(l, Cap(n, c, n - 1, "TBD", "Phase 1", NoColor)) :
             l \in ListsIn(n - 1, cats), c \in cats}

\* what a load can return while categories come and go: category 1, category
\* 2 or both, and capabilities that are each in a category of the response
MoveResponses ==
    {[categories |-> <<Category(1, 0)>>, capabilities |-> l] :
        l \in ListsIn(MoveCaps, {1})}
    \cup {[categories |-> <<Category(2, 1)>>, capabilities |-> l] :
              l \in ListsIn(MoveCaps, {2})}
    \cup {[categories |-> <<Category(1, 0), Category(2, 1)>>, capabilities |-> l] :
              l \in ListsIn(MoveCaps, {1, 2})}

MoveOutcomes ==
    {[ok |-> TRUE, data |-> d] : d \in MoveResponses}
        \cup {[ok |-> FALSE, data |-> [categories |-> <<>>, capabilities |-> <<>>]]}

\* A map is open and its capabilities are selected (the state after
\* handleProjectSelected and Ctrl+A); the user moves capabilities, saves edits
\* (which reloads the map), deletes the selection, undoes and redoes, also
\* while a move awaits the server.
InitMove ==
    /\ mapId = 1
    /\ \E d \in MoveResponses :
          /\ categories = d.categories
          /\ capabilities = d.capabilities
    /\ capRef = NoRefs(capabilities)
    /\ selectedIds = {capabilities[i].Id : i \in DOMAIN capabilities}
    /\ applyColorToAll = FALSE
    /\ changedColorIds = {}
    /\ hasUnsavedChanges = FALSE
    /\ history = <<Snapshot>>
    /\ historyIndex = 0
    /\ toastState = NoToast
    /\ inFlight = NoCall
    /\ budget = [push |-> MovePushes, undo |-> Unlimited, step |-> Unlimited]
    /\ prior = NoPrior
    /\ ExtIdle

NextMove ==
    \/ \E r \in MoveOutcomes :
          /\ handleCapabilitySaved(r.data, r.ok)
          /\ held' = HeldAfterReload(r.ok)
          /\ UNCHANGED <<loads, searchTerm, viewFilter, activeFilters,
                         selectedPhaseFilters, selectedSizeFilters, rendered, child, server>>
    \/ \E capId \in CapIds, newCategoryId \in CatIds :
          handleDropCall(capId, newCategoryId)
    \/ \E ok \in BOOLEAN : handleDropReturn(ok)
    \/ \E ok \in BOOLEAN :
          /\ handleBulkDelete(TRUE, ok)
          /\ held' = HeldAfterDelete(TRUE, ok)
          /\ UNCHANGED <<loads, searchTerm, viewFilter, activeFilters,
                         selectedPhaseFilters, selectedSizeFilters, rendered, child, server>>
    \/ /\ handleUndo
       /\ held' = HeldAfterRestore
       /\ UNCHANGED <<loads, searchTerm, viewFilter, activeFilters,
                      selectedPhaseFilters, selectedSizeFilters, rendered, child, server>>
    \/ /\ handleRedo
       /\ held' = HeldAfterRestore
       /\ UNCHANGED <<loads, searchTerm, viewFilter, activeFilters,
                      selectedPhaseFilters, selectedSizeFilters, rendered, child, server>>

SpecMove == InitMove /\ [][NextMove]_vars

\* ------------------------------------------ specification of map switching
\* The handlers that open a map, split where they await the server: a call
\* adds a request to loads.pending, the server's answer takes it out again.
\* loads.completed lists the getMapWithData answers in the order they arrived.
SwitchMaps == {1, 2}

\* what getMapWithData can answer for a map: its category, with or without
\* its capability
SwitchResponses(m) ==
    {[categories |-> <<Category(m, 0)>>,
      capabilities |-> <<Cap(m, m, 0, "TBD", "Phase 1", NoColor)>>],
     [categories |-> <<Category(m, 0)>>, capabilities |-> <<>>]}

Issue(by, stage, m) ==
    [loads EXCEPT !.pending = @ \cup {[n |-> loads.issued + 1, by |-> by,
                                       stage |-> stage, mapId |-> m]},
                  !.issued = @ + 1]

Arrived(req, ok, data) ==
    [loads EXCEPT !.pending = @ \ {req},
                  !.completed = IF ok THEN Append(@, [n |-> req.n, data |-> data])
                                ELSE @]

\* handleProjectSelected up to its first await (getMapByProject / createMap)
handleProjectSelectedCall(newMapId) ==
    /\ loads.issued < LoadCalls
    /\ loads' = Issue("handleProjectSelected", "map", newMapId)
    /\ UNCHANGED <<mapId, categories, capabilities, capRef, selectedIds,
                   applyColorToAll, changedColorIds, hasUnsavedChanges, history,
                   historyIndex, toastState, inFlight, budget, prior, held,
                   searchTerm, viewFilter, activeFilters, selectedPhaseFilters,
                   selectedSizeFilters, rendered, child, server>>

\* handleProjectSelected from the answer with the map to its next await:
\* this.mapId = map.Id; loadMapData calls getMapWithData({ mapId: this.mapId })
getMapByProjectReturn(req, mapOk) ==
    /\ req \in loads.pending
    /\ req.stage = "map"
    /\ IF mapOk
       THEN /\ mapId' = req.mapId
            /\ loads' = [loads EXCEPT !.pending =
                            (@ \ {req}) \cup {[req EXCEPT !.stage = "data"]}]
            /\ UNCHANGED toastState
       ELSE /\ toastState' = Toast("Error: ", "error")
            /\ loads' = Arrived(req, FALSE, <<>>)
            /\ UNCHANGED mapId
    /\ UNCHANGED <<categories, capabilities, capRef, selectedIds, applyColorToAll,
                   changedColorIds, hasUnsavedChanges, history, historyIndex,
                   inFlight, budget, prior, held, searchTerm, viewFilter,
                   activeFilters, selectedPhaseFilters, selectedSizeFilters,
                   rendered, child, server>>

\* handleFavoriteClick up to its await
handleFavoriteClickCall(newMapId) ==
    /\ loads.issued < LoadCalls
    /\ loads' = Issue("handleFavoriteClick", "data", newMapId)
    /\ UNCHANGED <<mapId, categories, capabilities, capRef, selectedIds,
                   applyColorToAll, changedColorIds, hasUnsavedChanges, history,
                   historyIndex, toastState, inFlight, budget, prior, held,
                   searchTerm, viewFilter, activeFilters, selectedPhaseFilters,
                   selectedSizeFilters, rendered, child, server>>

\* getMapWithDataReturn applying an answer only when no answer to a request
\* issued later has arrived before it
getMapWithDataReturn_IssueOrder(req, ok, data) ==
    /\ req \in loads.pending
    /\ req.stage = "data"
    /\ LET fresh == \A k \in DOMAIN loads.completed : loads.completed[k].n < req.n
           l == IF req.by = "handleProjectSelected"
                THEN loadMapData(req.mapId, data, ok)
                ELSE [categories |-> SortBySortOrder(data.categories),
                      capabilities |-> data.capabilities,
                      capRef |-> NoRefs(data.capabilities),
                      toastState |-> toastState]
           cats == IF fresh THEN l.categories ELSE categories
           caps == IF fresh THEN l.capabilities ELSE capabilities
           refs == IF fresh THEN l.capRef ELSE capRef
           s == saveHistory(history, historyIndex, cats, caps, refs)
       IN IF req.by = "handleProjectSelected" \/ ok
          THEN /\ mapId' = IF req.by = "handleFavoriteClick" THEN req.mapId ELSE mapId
               /\ categories' = cats
               /\ capabilities' = caps
               /\ capRef' = s.capRef
               /\ history' = s.history
               /\ historyIndex' = s.historyIndex
               /\ toastState' = l.toastState
               /\ CanPush
               /\ budget' = Pushed
          ELSE /\ toastState' = Toast("Error loading map", "error")
               /\ CanStep
               /\ budget' = Stepped
               /\ UNCHANGED <<mapId, categories, capabilities, capRef, history,
                              historyIndex>>
    /\ loads' = Arrived(req, ok, data)
    /\ prior' = NoPrior
    /\ UNCHANGED <<selectedIds, applyColorToAll, changedColorIds, hasUnsavedChanges,
                   inFlight, held, searchTerm, viewFilter, activeFilters,
                   selectedPhaseFilters, selectedSizeFilters, rendered, child, server>>

\* the rest of a handler after getMapWithData has answered or failed.
\* handleProjectSelected: loadMapData assigns the answer (or toasts its own
\* error and returns normally), then saveHistory runs in either case.
\* handleFavoriteClick: assigns mapId and the answer and saves the history, or
\* toasts the error and changes nothing.
getMapWithDataReturn(req, ok, data) ==
    /\ req \in loads.pending
    /\ req.stage = "data"
    /\ LET l == IF req.by = "handleProjectSelected"
                THEN loadMapData(req.mapId, data, ok)
                ELSE [categories |-> SortBySortOrder(data.categories),
                      capabilities |-> data.capabilities,
                      capRef |-> NoRefs(data.capabilities),
                      toastState |-> toastState]
           s == saveHistory(history, historyIndex, l.categories, l.capabilities,
                            l.capRef)
       IN IF req.by = "handleProjectSelected" \/ ok
          THEN /\ mapId' = IF req.by = "handleFavoriteClick" THEN req.mapId ELSE mapId
               /\ categories' = l.categories
               /\ capabilities' = l.capabilities
               /\ capRef' = s.capRef
               /\ history' = s.history
               /\ historyIndex' = s.historyIndex
               /\ toastState' = l.toastState
               /\ CanPush
               /\ budget' = Pushed
          ELSE /\ toastState' = Toast("Error loading map", "error")
               /\ CanStep
               /\ budget' = Stepped
               /\ UNCHANGED <<mapId, categories, capabilities, capRef, history,
                              historyIndex>>
    /\ loads' = Arrived(req, ok, data)
    /\ prior' = NoPrior
    /\ UNCHANGED <<selectedIds, applyColorToAll, changedColorIds, hasUnsavedChanges,
                   inFlight, held, searchTerm, viewFilter, activeFilters,
                   selectedPhaseFilters, selectedSizeFilters, rendered, child, server>>

\* Requests a run can hold: any issue number, handler, stage and map
SwitchRequests ==
    [n : 1 .. LoadCalls, by : {"handleProjectSelected", "handleFavoriteClick"},
     stage : {"map", "data"}, mapId : SwitchMaps]

\* Map 1 is open and its capability is selected (the state after
\* handleProjectSelected and a tile click); the user opens maps by project and
\* from the favourites, also while earlier loads are still awaited.
InitSwitch ==
    /\ mapId = 1
    /\ categories = <<Category(1, 0)>>
    /\ capabilities = <<Cap(1, 1, 0, "TBD", "Phase 1", NoColor)>>
    /\ capRef = NoRefs(capabilities)
    /\ selectedIds = {1}
    /\ applyColorToAll = FALSE
    /\ changedColorIds = {}
    /\ hasUnsavedChanges = FALSE
    /\ history = <<Snapshot>>
    /\ historyIndex = 0
    /\ toastState = NoToast
    /\ inFlight = NoCall
    /\ budget = [push |-> Unlimited, undo |-> Unlimited, step |-> Unlimited]
    /\ prior = NoPrior
    /\ ExtIdle

NextSwitch ==
    \/ \E m \in SwitchMaps : handleProjectSelectedCall(m)
    \/ \E m \in SwitchMaps : handleFavoriteClickCall(m)
    \/ \E req \in SwitchRequests, mapOk \in BOOLEAN : getMapByProjectReturn(req, mapOk)
    \/ \E req \in SwitchRequests :
          \/ \E d \in SwitchResponses(req.mapId) : getMapWithDataReturn(req, TRUE, d)
          \/ getMapWithDataReturn(req, FALSE, [categories |-> <<>>, capabilities |-> <<>>])

SpecSwitch == InitSwitch /\ [][NextSwitch]_vars

\* the user also undoes and redoes between the map switches
NextSwitchUndo ==
    \/ NextSwitch
    \/ handleUndo /\ UNCHANGED ext
    \/ handleRedo /\ UNCHANGED ext

SpecSwitchUndo == InitSwitch /\ [][NextSwitchUndo]_vars

\* ------------------------------------------- specification of the derived view
\* Names and search terms are sequences of characters.
NoSortOrder == 0 - 1    \* Sort_Order__c null / undefined

\* String.prototype.toLowerCase on the letters the names are written in
Lower(c) ==
    CASE c = "A" -> "a"
      [] c = "B" -> "b"
      [] c = "C" -> "c"
      [] OTHER -> c

toLowerCase_Identity(s) == s

toLowerCase(s) == [i \in DOMAIN s |-> Lower(s[i])]

\* String.prototype.includes
includes(s, t) ==
    \E i \in 1 .. (Len(s) - Len(t) + 1) : SubSeq(s, i, i + Len(t) - 1) = t

\* a capability record as the view reads it
ViewCap(id, name, cat, ord, size, phase) ==
    [Id |-> id, Name |-> name, Capability_Category__c |-> cat, Sort_Order__c |-> ord,
     Size__c |-> size, Phase__c |-> phase, Color__c |-> NoColor,
     Hours_Override__c |-> NoOverride, Calculated_Hours__c |-> 0]

\* cap.Capability_Category__c === category.Id, where capabilities that are in
\* none of the categories count as the first category's
belongsTo_OrphansFirst(cap, category) ==
    \/ cap.Capability_Category__c = category.Id
    \/ /\ category = categories[1]
       /\ \A k \in DOMAIN categories : categories[k].Id # cap.Capability_Category__c

\* cap.Capability_Category__c === category.Id
belongsTo(cap, category) == cap.Capability_Category__c = category.Id

\* the filter callback of the getter of capabilityMapApp
passesFilters(cap, category) ==
    LET search == toLowerCase(searchTerm)
    IN /\ belongsTo(cap, category)
       /\ ~(search # <<>> /\ ~includes(toLowerCase(cap.Name), search))
       /\ ~(activeFilters # {} /\ cap.Size__c \in activeFilters)
       /\ ~(viewFilter = "tbd" /\ cap.Size__c # "TBD")
       /\ ~(viewFilter = "sized" /\ cap.Size__c = "TBD")

\* matchesFilter of a tile that matches when one of the two chip kinds does
matchesFilter_EitherChip(cap) ==
    LET hasPhaseFilter == selectedPhaseFilters # {}
        hasSizeFilter == selectedSizeFilters # {}
    IN \/ ~hasPhaseFilter /\ ~hasSizeFilter
       \/ hasPhaseFilter /\ cap.Phase__c \in selectedPhaseFilters
       \/ hasSizeFilter /\ cap.Size__c \in selectedSizeFilters

\* matchesFilter of a tile
matchesFilter(cap) ==
    LET hasPhaseFilter == selectedPhaseFilters # {}
        hasSizeFilter == selectedSizeFilters # {}
    IN /\ ~(hasPhaseFilter /\ cap.Phase__c \notin selectedPhaseFilters)
       /\ ~(hasSizeFilter /\ cap.Size__c \notin selectedSizeFilters)

\* the object the getter makes of a capability: the capability's own fields,
\* isSelected and the class names of tileClass in the order they are appended
Tile(cap) ==
    LET hasAnyFilter == selectedPhaseFilters # {} \/ selectedSizeFilters # {}
    IN [Id |-> cap.Id, Name |-> cap.Name,
        Capability_Category__c |-> cap.Capability_Category__c,
        Sort_Order__c |-> cap.Sort_Order__c, Size__c |-> cap.Size__c,
        Phase__c |-> cap.Phase__c,
        isSelected |-> cap.Id \in selectedIds,
        tileClass |-> <<"capability-tile">>
                      \o (IF cap.Id \in selectedIds THEN <<"multi-selected">> ELSE <<>>)
                      \o (IF hasAnyFilter /\ ~matchesFilter(cap) THEN <<"blurred">>
                          ELSE <<>>)]

\* a.Sort_Order__c || 0
OrZero(ord) == IF ord = NoSortOrder THEN 0 ELSE ord

\* Array.prototype.sort with (a, b) => (a.Sort_Order__c || 0) - (b.Sort_Order__c || 0)
RECURSIVE InsertTile(_, _)
InsertTile(sorted, x) ==
    IF sorted = <<>> THEN <<x>>
    ELSE IF OrZero(x.Sort_Order__c) < OrZero(sorted[1].Sort_Order__c)
    THEN <<x>> \o sorted
    ELSE <<sorted[1]>> \o InsertTile(Tail(sorted), x)

RECURSIVE SortTiles(_)
SortTiles(s) ==
    IF s = <<>> THEN <<>>
    ELSE InsertTile(SortTiles(SubSeq(s, 1, Len(s) - 1)), s[Len(s)])

\* the getter of capabilityMapApp
categoriesWithCapabilities ==
    [k \in DOMAIN categories |->
        LET category == categories[k]
            keep == [i \in DOMAIN capabilities |-> passesFilters(capabilities[i], category)]
            idx == SelectSeqIdx(capabilities, keep, 1)
            categoryCapabilities == [j \in DOMAIN idx |-> Tile(capabilities[idx[j]])]
        IN [Id |-> category.Id, Sort_Order__c |-> category.Sort_Order__c,
            capabilities |-> SortTiles(categoryCapabilities)]]

\* the value of (a, b) => a.Sort_Order__c - b.Sort_Order__c as the sort uses
\* it: the difference is NaN when a sort order is missing, and the sort takes
\* NaN for +0
CanvasCompare(a, b) ==
    IF a.Sort_Order__c = NoSortOrder \/ b.Sort_Order__c = NoSortOrder THEN 0
    ELSE a.Sort_Order__c - b.Sort_Order__c

\* the comparator is a consistent comparator for the elements of s
Consistent(s) ==
    \A i, j, k \in DOMAIN s :
        /\ (CanvasCompare(s[i], s[j]) = 0 /\ CanvasCompare(s[j], s[k]) = 0)
              => CanvasCompare(s[i], s[k]) = 0
        /\ (CanvasCompare(s[i], s[j]) < 0 /\ CanvasCompare(s[j], s[k]) < 0)
              => CanvasCompare(s[i], s[k]) < 0
        /\ (CanvasCompare(s[i], s[j]) > 0 /\ CanvasCompare(s[j], s[k]) > 0)
              => CanvasCompare(s[i], s[k]) > 0

RECURSIVE InsertByCompare(_, _)
InsertByCompare(sorted, x) ==
    IF sorted = <<>> THEN <<x>>
    ELSE IF CanvasCompare(x, sorted[1]) < 0 THEN <<x>> \o sorted
    ELSE <<sorted[1]>> \o InsertByCompare(Tail(sorted), x)

RECURSIVE SortByCompare(_)
SortByCompare(s) ==
    IF s = <<>> THEN <<>>
    ELSE InsertByCompare(SortByCompare(SubSeq(s, 1, Len(s) - 1)), s[Len(s)])

Reorderings(s) ==
    {[i \in DOMAIN s |-> s[p[i]]] :
        p \in {q \in [DOMAIN s -> DOMAIN s] : \A i, j \in DOMAIN s : q[i] = q[j] => i = j}}

\* what Array.prototype.sort can leave: the stable order under a consistent
\* comparator, an order the implementation chooses under any other
CanvasSorts(s) == IF Consistent(s) THEN {SortByCompare(s)} ELSE Reorderings(s)

\* the capabilities the getter of capabilityMapCanvas filters for a category
CanvasFiltered(category) ==
    LET keep == [i \in DOMAIN capabilities |-> belongsTo(capabilities[i], category)]
        idx == SelectSeqIdx(capabilities, keep, 1)
    IN [j \in DOMAIN idx |-> capabilities[idx[j]]]

\* the values the getter of capabilityMapCanvas can return
canvasCategoriesWithCapabilities ==
    {v \in [DOMAIN categories ->
               UNION {{[Id |-> categories[k].Id,
                        Sort_Order__c |-> categories[k].Sort_Order__c,
                        capabilities |-> l] : l \in CanvasSorts(CanvasFiltered(categories[k]))}
                      : k \in DOMAIN categories}] :
        \A k \in DOMAIN categories :
            /\ v[k].Id = categories[k].Id
            /\ v[k].capabilities \in CanvasSorts(CanvasFiltered(categories[k]))}

\* the fields the filter handlers and the getters leave alone
snapshotFields ==
    <<mapId, categories, capabilities, capRef, selectedIds, applyColorToAll,
      changedColorIds, hasUnsavedChanges, history, historyIndex, toastState,
      inFlight, budget, prior, held, loads, child, server>>

\* each handler assigns a tracked field, which discards the rendered view
handleSearchChange(value) ==
    /\ searchTerm' = value
    /\ rendered' = NotRendered
    /\ UNCHANGED <<snapshotFields, viewFilter, activeFilters, selectedPhaseFilters,
                   selectedSizeFilters>>

handleFilterAll ==
    /\ viewFilter' = "all"
    /\ rendered' = NotRendered
    /\ UNCHANGED <<snapshotFields, searchTerm, activeFilters, selectedPhaseFilters,
                   selectedSizeFilters>>

handleFilterSized ==
    /\ viewFilter' = "sized"
    /\ rendered' = NotRendered
    /\ UNCHANGED <<snapshotFields, searchTerm, activeFilters, selectedPhaseFilters,
                   selectedSizeFilters>>

handleFilterTbd ==
    /\ viewFilter' = "tbd"
    /\ rendered' = NotRendered
    /\ UNCHANGED <<snapshotFields, searchTerm, activeFilters, selectedPhaseFilters,
                   selectedSizeFilters>>

handleSizeFilterToggle(size) ==
    /\ activeFilters' = IF size \in activeFilters THEN activeFilters \ {size}
                        ELSE activeFilters \cup {size}
    /\ rendered' = NotRendered
    /\ UNCHANGED <<snapshotFields, searchTerm, viewFilter, selectedPhaseFilters,
                   selectedSizeFilters>>

handlePhaseFilterClick(phase) ==
    /\ selectedPhaseFilters' = IF phase \in selectedPhaseFilters
                               THEN selectedPhaseFilters \ {phase}
                               ELSE selectedPhaseFilters \cup {phase}
    /\ rendered' = NotRendered
    /\ UNCHANGED <<snapshotFields, searchTerm, viewFilter, activeFilters,
                   selectedSizeFilters>>

handleSizeFilterClick(size) ==
    /\ selectedSizeFilters' = IF size \in selectedSizeFilters
                              THEN selectedSizeFilters \ {size}
                              ELSE selectedSizeFilters \cup {size}
    /\ rendered' = NotRendered
    /\ UNCHANGED <<snapshotFields, searchTerm, viewFilter, activeFilters,
                   selectedPhaseFilters>>

handleClearFilters ==
    /\ selectedPhaseFilters' = {}
    /\ selectedSizeFilters' = {}
    /\ rendered' = NotRendered
    /\ UNCHANGED <<snapshotFields, searchTerm, viewFilter, activeFilters>>

\* the template evaluating the getter of capabilityMapApp, where the getter
\* sorts this.capabilities itself before it filters
render_SortInPlace ==
    /\ capabilities' = SortTiles(capabilities)
    /\ rendered' = [by |-> "app", value |-> categoriesWithCapabilities]
    /\ UNCHANGED <<mapId, categories, capRef, selectedIds, applyColorToAll,
                   changedColorIds, hasUnsavedChanges, history, historyIndex,
                   toastState, inFlight, budget, prior, held, loads, searchTerm,
                   viewFilter, activeFilters, selectedPhaseFilters,
                   selectedSizeFilters, child, server>>

\* the template evaluating the getter of capabilityMapApp
render ==
    /\ rendered' = [by |-> "app", value |-> categoriesWithCapabilities]
    /\ UNCHANGED <<snapshotFields, searchTerm, viewFilter, activeFilters,
                   selectedPhaseFilters, selectedSizeFilters>>

\* the template evaluating the getter of capabilityMapCanvas
renderCanvas ==
    /\ \E v \in canvasCategoriesWithCapabilities :
          rendered' = [by |-> "canvas", value |-> v]
    /\ UNCHANGED <<snapshotFields, searchTerm, viewFilter, activeFilters,
                   selectedPhaseFilters, selectedSizeFilters>>

\* what the user can type and click
ViewTerms == {<<>>, <<"a">>, <<"A", "B">>}
ViewSizes == {"TBD", "M"}
ViewPhases == {"Phase 1", "Phase 2"}

\* the capabilities a loaded map can have, by identifier: 1 is Ab (M, Phase 1)
\* in category 1 at position 1; 2 is bA (TBD, no phase) in category 1 or in a
\* category that is not in the map, at position 0 or without position; 3 is C
\* (L, Phase 2) in category 1 or 2 at position 0; the others are ac (M,
\* Phase 2) in category 2 at position 1
ViewCapsOf(id) ==
    CASE id = 1 -> {ViewCap(1, <<"A", "b">>, 1, 1, "M", "Phase 1")}
      [] id = 2 -> {ViewCap(2, <<"b", "A">>, c, o, "TBD", NoPhase) :
                       c \in {1, 3}, o \in {0, NoSortOrder}}
      [] id = 3 -> {ViewCap(3, <<"C">>, c, 0, "L", "Phase 2") : c \in {1, 2}}
      [] OTHER -> {ViewCap(id, <<"a", "c">>, 2, 1, "M", "Phase 2")}

RECURSIVE ViewLists(_)
ViewLists(n) ==
    IF n = 0 THEN {<<>>}
    ELSE {Append(l, c) : l \in ViewLists(n - 1), c \in ViewCapsOf(n)}

\* A map is loaded and capability 1 is selected (the state after loadMapData
\* and a tile click); the user types in the search box, clicks the view
\* buttons, the size filters and the chips, and the templates render.
InitView ==
    /\ mapId = 1
    /\ categories = <<Category(1, 0), Category(2, 1)>>
    /\ capabilities \in ViewLists(ViewCaps)
    /\ capRef = NoRefs(capabilities)
    /\ selectedIds = {1}
    /\ applyColorToAll = FALSE
    /\ changedColorIds = {}
    /\ hasUnsavedChanges = FALSE
    /\ history = <<Snapshot>>
    /\ historyIndex = 0
    /\ toastState = NoToast
    /\ inFlight = NoCall
    /\ budget = [push |-> Unlimited, undo |-> Unlimited, step |-> Unlimited]
    /\ prior = NoPrior
    /\ ExtIdle

NextView ==
    \/ \E value \in ViewTerms : handleSearchChange(value)
    \/ handleFilterAll
    \/ handleFilterSized
    \/ handleFilterTbd
    \/ \E size \in ViewSizes : handleSizeFilterToggle(size)
    \/ \E phase \in ViewPhases : handlePhaseFilterClick(phase)
    \/ \E size \in ViewSizes : handleSizeFilterClick(size)
    \/ handleClearFilters
    \/ render
    \/ renderCanvas

SpecView == InitView /\ [][NextView]_vars

\* ------------------------------- specification of the confirm-then-apply flows
\* handleResetAllColors up to its await: the coloured capabilities are sent
handleResetAllColorsCall(confirmed) ==
    /\ \E i \in DOMAIN capabilities : Truthy(capabilities[i].Color__c)
    /\ confirmed
    /\ inFlight = NoCall
    /\ inFlight' = [op |-> "handleResetAllColors",
                    ids |-> {capabilities[i].Id : i \in
                               {j \in DOMAIN capabilities :
                                   Truthy(capabilities[j].Color__c)}}]
    /\ UNCHANGED <<mapId, categories, capabilities, capRef, selectedIds,
                   applyColorToAll, changedColorIds, hasUnsavedChanges, history,
                   historyIndex, toastState, budget, prior>>

\* handleResetAllColors from its await on
handleResetAllColorsReturn(ok) ==
    /\ inFlight.op = "handleResetAllColors"
    /\ inFlight' = NoCall
    /\ IF ok
       THEN /\ capabilities' = [i \in DOMAIN capabilities |->
                                   [capabilities[i] EXCEPT !.Color__c = NoColor]]
            /\ capRef' = NoRefs(capabilities)
            /\ changedColorIds' = {}
            /\ hasUnsavedChanges' = FALSE
            /\ toastState' = Toast("Cleared colors", "")
       ELSE /\ toastState' = Toast("Error resetting colors", "error")
            /\ UNCHANGED <<capabilities, capRef, changedColorIds, hasUnsavedChanges>>
    /\ UNCHANGED <<mapId, categories, selectedIds, applyColorToAll, history,
                   historyIndex>>
    /\ budget' = Stepped
    /\ prior' = NoPrior

\* capability lists of capabilities 1..n, each in category 1 or 2, coloured
\* or not
RECURSIVE ConfirmLists(_)
ConfirmLists(n) ==
    IF n = 0 THEN {<<>>}
    ELSE {Append(l, Cap(n, c, n - 1, "M", "Phase 1", col)) :
             l \in ConfirmLists(n - 1), c \in CatIds, col \in {NoColor, "#0176D3"}}

\* A map is open and its capabilities are selected (the state after
\* handleProjectSelected and Ctrl+A); the user resets sizes, phases and
\* colours and moves capabilities, each flow waiting for the server.
InitConfirm ==
    /\ mapId = 1
    /\ categories = <<Category(1, 0), Category(2, 1)>>
    /\ capabilities \in ConfirmLists(MoveCaps)
    /\ capRef = NoRefs(capabilities)
    /\ selectedIds = {capabilities[i].Id : i \in DOMAIN capabilities}
    /\ applyColorToAll = FALSE
    /\ changedColorIds = {}
    /\ hasUnsavedChanges = FALSE
    /\ history = <<Snapshot>>
    /\ historyIndex = 0
    /\ toastState = NoToast
    /\ inFlight = NoCall
    /\ budget = [push |-> MovePushes, undo |-> Unlimited, step |-> Unlimited]
    /\ prior = NoPrior
    /\ ExtIdle

NextConfirm ==
    \/ handleResetSizeCall /\ UNCHANGED ext
    \/ \E ok \in BOOLEAN : handleResetSizeReturn(ok) /\ UNCHANGED ext
    \/ handleResetPhaseCall /\ UNCHANGED ext
    \/ \E ok \in BOOLEAN : handleResetPhaseReturn(ok) /\ UNCHANGED ext
    \/ handleResetAllColorsCall(TRUE) /\ UNCHANGED ext
    \/ \E ok \in BOOLEAN : handleResetAllColorsReturn(ok) /\ UNCHANGED ext
    \/ \E capId \in CapIds, cat \in CatIds : handleDropCall(capId, cat)
    \/ \E ok \in BOOLEAN : handleDropReturn(ok)

SpecConfirm == InitConfirm /\ [][NextConfirm]_vars

\* ------------------------------------------- specification of the edit modals
\* child holds the fields of the open modal: name is a sequence of characters,
\* categoryId is selectedCategoryId (CapabilityEditModal with the category
\* picker) or the categoryId the parent passed (the other CapabilityEditModal),
\* 0 when there is none; calls lists the Apex methods called and events the
\* events dispatched since the modal was opened.
RECURSIVE trimStart(_)
trimStart(s) == IF s # <<>> /\ Head(s) = " " THEN trimStart(Tail(s)) ELSE s

RECURSIVE trimEnd(_)
trimEnd(s) ==
    IF s # <<>> /\ s[Len(s)] = " " THEN trimEnd(SubSeq(s, 1, Len(s) - 1)) ELSE s

\* String.prototype.trim
trim(s) == trimEnd(trimStart(s))

\* the fields the modals leave alone
parentFields ==
    <<mapId, categories, capabilities, capRef, selectedIds, applyColorToAll,
      changedColorIds, hasUnsavedChanges, history, historyIndex, toastState,
      inFlight, budget, prior, held, loads, searchTerm, viewFilter, activeFilters,
      selectedPhaseFilters, selectedSizeFilters, rendered, server>>

handleNameChange(value) ==
    /\ child.component \in {"CapabilityEditModal", "CapabilityEditModal (isLoading)",
                            "CategoryEditModal", "CategoryEditModal (isLoading)"}
    /\ child' = [child EXCEPT !.name = value]
    /\ UNCHANGED parentFields

handleCategoryChange(value) ==
    /\ child.component = "CapabilityEditModal"
    /\ child' = [child EXCEPT !.categoryId = value]
    /\ UNCHANGED parentFields

handleRoleChange(value) ==
    /\ child.component = "BulkOperationsModal"
    /\ child' = [child EXCEPT !.selectedRoleId = value]
    /\ UNCHANGED parentFields

\* handleSave of the CapabilityEditModal that has the category picker; ok is
\* whether the Apex call resolves
CapabilityEditModal_handleSave(ok) ==
    /\ child.component = "CapabilityEditModal"
    /\ Len(child.calls) < ModalCalls
    /\ child' =
          IF trim(child.name) = <<>>
          THEN [child EXCEPT !.alert = "Please enter a name"]
          ELSE IF child.categoryId = 0
          THEN [child EXCEPT !.alert = "Please select a category"]
          ELSE LET called == [child EXCEPT !.calls =
                                 Append(@, IF child.mode = "edit" THEN "updateCapability"
                                           ELSE "createCapability")]
               IN IF ok THEN [called EXCEPT !.events = Append(@, "saved")]
                  ELSE [called EXCEPT !.alert = "Error saving: "]
    /\ UNCHANGED parentFields

\* handleSave of the CapabilityEditModal that sets isLoading
CapabilityEditModal_handleSave_isLoading(ok) ==
    /\ child.component = "CapabilityEditModal (isLoading)"
    /\ Len(child.calls) < ModalCalls
    /\ child' =
          IF child.name = <<>> THEN child
          ELSE LET called == [child EXCEPT !.calls =
                                 Append(@, IF child.mode = "edit" THEN "updateCapability"
                                           ELSE "createCapability")]
               IN IF ok THEN [called EXCEPT !.events = Append(@, "saved")] ELSE called
    /\ UNCHANGED parentFields

\* handleSave of the CategoryEditModal that alerts
CategoryEditModal_handleSave(ok) ==
    /\ child.component = "CategoryEditModal"
    /\ Len(child.calls) < ModalCalls
    /\ child' =
          IF trim(child.name) = <<>>
          THEN [child EXCEPT !.alert = "Please enter a name"]
          ELSE LET called == [child EXCEPT !.calls =
                                 Append(@, IF child.mode = "edit" THEN "updateCategory"
                                           ELSE "createCategory")]
               IN IF ok THEN [called EXCEPT !.events = Append(@, "saved")]
                  ELSE [called EXCEPT !.alert = "Error: "]
    /\ UNCHANGED parentFields

\* handleSave of the CategoryEditModal that sets isLoading
CategoryEditModal_handleSave_isLoading(ok) ==
    /\ child.component = "CategoryEditModal (isLoading)"
    /\ Len(child.calls) < ModalCalls
    /\ child' =
          IF child.name = <<>> THEN child
          ELSE LET called == [child EXCEPT !.calls =
                                 Append(@, IF child.mode = "edit" THEN "updateCategory"
                                           ELSE "createCategory")]
               IN IF ok THEN [called EXCEPT !.events = Append(@, "saved")] ELSE called
    /\ UNCHANGED parentFields

\* handleApply of BulkOperationsModal (child.mode is operationType)
handleApply(ok) ==
    /\ child.component = "BulkOperationsModal"
    /\ Len(child.calls) < ModalCalls
    /\ child' =
          IF child.mode \in {"size", "phase"}
          THEN LET called == [child EXCEPT !.calls = Append(@, "bulkUpdateCapabilities")]
               IN IF ok THEN [called EXCEPT !.events = Append(@, "applied")]
                  ELSE [called EXCEPT !.alert = "Error: "]
          ELSE IF child.mode = "team"
          THEN IF child.selectedRoleId = ""
               THEN [child EXCEPT !.alert = "Please select a team member"]
               ELSE LET called == [child EXCEPT !.calls = Append(@, "bulkAssignRoles")]
                    IN IF ok THEN [called EXCEPT !.events = Append(@, "applied")]
                       ELSE [called EXCEPT !.alert = "Error: "]
          ELSE child
    /\ UNCHANGED parentFields

\* what the user can type and pick
ModalNames == {<<>>, <<" ">>, <<"X">>}

\* a modal as it opens: an edit modal for a new record (no name; the category
\* the parent chose, none when the map has no category) or for an existing
\* one (its name and category), or the bulk modal with no team member picked
OpenedModals ==
    {[component |-> c, mode |-> "create", name |-> <<>>, categoryId |-> cat,
      selectedRoleId |-> "", alert |-> "", calls |-> <<>>, events |-> <<>>] :
        c \in {"CapabilityEditModal", "CapabilityEditModal (isLoading)",
               "CategoryEditModal", "CategoryEditModal (isLoading)"},
        cat \in {0, 1}}
    \cup
    {[component |-> c, mode |-> "edit", name |-> <<"X">>, categoryId |-> 1,
      selectedRoleId |-> "", alert |-> "", calls |-> <<>>, events |-> <<>>] :
        c \in {"CapabilityEditModal", "CapabilityEditModal (isLoading)",
               "CategoryEditModal", "CategoryEditModal (isLoading)"}}
    \cup
    {[component |-> "BulkOperationsModal", mode |-> op, name |-> <<>>,
      categoryId |-> 0, selectedRoleId |-> "", alert |-> "", calls |-> <<>>,
      events |-> <<>>] : op \in {"size", "phase", "team"}}

InitModal ==
    /\ mapId = 1
    /\ categories = <<>>
    /\ capabilities = <<>>
    /\ capRef = <<>>
    /\ selectedIds = {}
    /\ applyColorToAll = FALSE
    /\ changedColorIds = {}
    /\ hasUnsavedChanges = FALSE
    /\ history = <<Snapshot>>
    /\ historyIndex = 0
    /\ toastState = NoToast
    /\ inFlight = NoCall
    /\ budget = [push |-> Unlimited, undo |-> Unlimited, step |-> Unlimited]
    /\ prior = NoPrior
    /\ held = NoHeld
    /\ loads = NoLoads
    /\ searchTerm = <<>>
    /\ viewFilter = "all"
    /\ activeFilters = {}
    /\ selectedPhaseFilters = {}
    /\ selectedSizeFilters = {}
    /\ rendered = NotRendered
    /\ server = NoServer
    /\ child \in OpenedModals

NextModal ==
    \/ \E value \in ModalNames : handleNameChange(value)
    \/ \E value \in {0, 1} : handleCategoryChange(value)
    \/ \E value \in {"", "role"} : handleRoleChange(value)
    \/ \E ok \in BOOLEAN : CapabilityEditModal_handleSave(ok)
    \/ \E ok \in BOOLEAN : CapabilityEditModal_handleSave_isLoading(ok)
    \/ \E ok \in BOOLEAN : CategoryEditModal_handleSave(ok)
    \/ \E ok \in BOOLEAN : CategoryEditModal_handleSave_isLoading(ok)
    \/ \E ok \in BOOLEAN : handleApply(ok)

SpecModal == InitModal /\ [][NextModal]_vars

\* ---------------------------------- specification of the template modal
\* the container with a map open and nothing in it, no handler suspended
ParentIdle ==
    /\ mapId = 1
    /\ categories = <<>>
    /\ capabilities = <<>>
    /\ capRef = <<>>
    /\ selectedIds = {}
    /\ applyColorToAll = FALSE
    /\ changedColorIds = {}
    /\ hasUnsavedChanges = FALSE
    /\ history = <<Snapshot>>
    /\ historyIndex = 0
    /\ toastState = NoToast
    /\ inFlight = NoCall
    /\ budget = [push |-> Unlimited, undo |-> Unlimited, step |-> Unlimited]
    /\ prior = NoPrior
    /\ held = NoHeld
    /\ loads = NoLoads
    /\ searchTerm = <<>>
    /\ viewFilter = "all"
    /\ activeFilters = {}
    /\ selectedPhaseFilters = {}
    /\ selectedSizeFilters = {}
    /\ rendered = NotRendered
    /\ server = NoServer

TemplateIds == {1, 2}
NoTemplate == 0       \* selectedTemplateId null
TEMPLATE_CATEGORIES == {"Core CRM", "Marketing and Commerce"}

\* what getTemplateWithItems returns for a template
TemplateData(templateId) == [templateId |-> templateId]
\* selectedTemplateData null
NoTemplateData == [templateId |-> NoTemplate]

handleCategoryClick(category) ==
    /\ child.component = "CapabilityMapTemplateModal"
    /\ child' = [child EXCEPT !.activeCategory = category,
                              !.selectedTemplateId = NoTemplate,
                              !.selectedTemplateData = NoTemplateData]
    /\ UNCHANGED parentFields

\* handleTemplateSelect up to its await
handleTemplateSelectCall(templateId) ==
    /\ child.component = "CapabilityMapTemplateModal"
    /\ child.issued < TemplateCalls
    /\ child' = [child EXCEPT !.selectedTemplateId = templateId,
                              !.pending = @ \cup {[n |-> child.issued + 1,
                                                   templateId |-> templateId]},
                              !.issued = @ + 1]
    /\ UNCHANGED parentFields

\* handleTemplateSelect from its await on: getTemplateWithItems has resolved
\* (ok) or rejected
getTemplateWithItemsReturn(req, ok) ==
    /\ child.component = "CapabilityMapTemplateModal"
    /\ req \in child.pending
    /\ child' = [child EXCEPT !.pending = @ \ {req},
                              !.selectedTemplateData =
                                  IF ok THEN TemplateData(req.templateId) ELSE @]
    /\ UNCHANGED parentFields

\* the template modal has been opened; the user clicks category tabs and
\* template cards, also while the details of a template are awaited
InitTemplate ==
    /\ ParentIdle
    /\ child = [component |-> "CapabilityMapTemplateModal",
                activeCategory |-> "Core CRM",
                selectedTemplateId |-> NoTemplate,
                selectedTemplateData |-> NoTemplateData,
                pending |-> {}, issued |-> 0]

NextTemplate ==
    \/ \E category \in TEMPLATE_CATEGORIES : handleCategoryClick(category)
    \/ \E templateId \in TemplateIds : handleTemplateSelectCall(templateId)
    \/ \E n \in 1 .. TemplateCalls, templateId \in TemplateIds, ok \in BOOLEAN :
          getTemplateWithItemsReturn([n |-> n, templateId |-> templateId], ok)

SpecTemplate == InitTemplate /\ [][NextTemplate]_vars

\* --------------------------------- specification of the project selector
\* what the user can have typed into the search input
SelectorTerms == {<<>>, <<"a">>, <<"a", "b">>, <<"a", "c">>}

\* this.projects = []
NoProjects == [term |-> <<>>, found |-> FALSE]
\* the list getProjects({ searchTerm: term }) resolved with: empty or not
Projects(term, found) == [term |-> term, found |-> found]

\* handleSearchChange of the project selector: the pending timer is cleared;
\* a term of two characters or more arms a new one
ProjectSelector_handleSearchChange(value) ==
    /\ child.component = "ProjectSelector"
    /\ child' = IF Len(value) >= 2
                THEN [child EXCEPT !.searchTerm = value, !.searchTimeout = TRUE]
                ELSE [child EXCEPT !.searchTerm = value, !.searchTimeout = FALSE,
                                   !.projects = NoProjects, !.showDropdown = FALSE]
    /\ UNCHANGED parentFields

handleModeChange(mode) ==
    /\ child.component = "ProjectSelector"
    /\ child' = [child EXCEPT !.mode = mode, !.searchTerm = <<>>,
                              !.projects = NoProjects, !.showDropdown = FALSE]
    /\ UNCHANGED parentFields

\* 300 ms have passed since the timer was armed: searchProjects runs up to its
\* await, sending the term the input holds now
searchProjectsCall ==
    /\ child.component = "ProjectSelector"
    /\ child.searchTimeout
    /\ child.issued < SelectorCalls
    /\ child' = [child EXCEPT !.searchTimeout = FALSE,
                              !.pending = @ \cup {[n |-> child.issued + 1,
                                                   term |-> child.searchTerm]},
                              !.issued = @ + 1]
    /\ UNCHANGED parentFields

\* searchProjects from its await on: getProjects has resolved (ok) with an
\* empty or a non-empty list, or rejected
getProjectsReturn(req, ok, found) ==
    /\ child.component = "ProjectSelector"
    /\ req \in child.pending
    /\ child' = IF ok
                THEN [child EXCEPT !.pending = @ \ {req},
                                   !.projects = Projects(req.term, found),
                                   !.showDropdown = found]
                ELSE [child EXCEPT !.pending = @ \ {req},
                                   !.projects = NoProjects]
    /\ UNCHANGED parentFields

\* the project selector is shown in project mode with an empty input; the
\* user types, switches the mode, and the searches are answered in any order
InitSelector ==
    /\ ParentIdle
    /\ child = [component |-> "ProjectSelector", mode |-> "project",
                searchTerm |-> <<>>, searchTimeout |-> FALSE,
                projects |-> NoProjects, showDropdown |-> FALSE,
                pending |-> {}, issued |-> 0]

NextSelector ==
    \/ \E value \in SelectorTerms : ProjectSelector_handleSearchChange(value)
    \/ \E mode \in {"project", "standalone"} : handleModeChange(mode)
    \/ searchProjectsCall
    \/ \E n \in 1 .. SelectorCalls, term \in SelectorTerms, ok \in BOOLEAN,
          found \in BOOLEAN :
          /\ ok \/ ~found
          /\ getProjectsReturn([n |-> n, term |-> term], ok, found)

SpecSelector == InitSelector /\ [][NextSelector]_vars

\* ------------------------------ specification of deletion against the server
\* the context menu is shown for the capability that was right-clicked
ContextMenu(capId) == [component |-> "ContextMenu", contextCapabilityId |-> capId]

\* the server's records of the open map
Followed(cats, caps) == [followed |-> TRUE, categories |-> cats, capabilities |-> caps]

\* the server after the deleteCapability calls of the identifiers done resolved
deleteCapability(done) ==
    LET kept(c) == c.Id \notin done
    IN [server EXCEPT !.capabilities = SelectSeq(@, kept)]

handleTileContextMenu(capId) ==
    /\ capId \in {c.Id : c \in Range(capabilities)}
    /\ child' = ContextMenu(capId)
    /\ selectedIds' = selectedIds \cup {capId}
    /\ UNCHANGED <<mapId, categories, capabilities, capRef, applyColorToAll,
                   changedColorIds, hasUnsavedChanges, history, historyIndex,
                   toastState, inFlight, budget, prior, held, loads, searchTerm,
                   viewFilter, activeFilters, selectedPhaseFilters,
                   selectedSizeFilters, rendered, server>>

handleDocumentClick ==
    /\ child.component = "ContextMenu"
    /\ child' = NoChild
    /\ UNCHANGED <<mapId, categories, capabilities, capRef, selectedIds,
                   applyColorToAll, changedColorIds, hasUnsavedChanges, history,
                   historyIndex, toastState, inFlight, budget, prior, held, loads,
                   searchTerm, viewFilter, activeFilters, selectedPhaseFilters,
                   selectedSizeFilters, rendered, server>>

\* handleBulkDelete with the server followed: deleteCapabilities awaits one
\* deleteCapability call per identifier, in the order of the selection; the
\* calls of done resolve, and when done is not all of them the next rejects
handleBulkDeleteCalls(confirmed, done) ==
    /\ done \subseteq selectedIds
    /\ selectedIds # {}
    /\ handleBulkDelete(confirmed, done = selectedIds)
    /\ server' = IF confirmed THEN deleteCapability(done) ELSE server

\* the Delete entry of the context menu
handleContextDelete(confirmed, done) ==
    /\ child.component = "ContextMenu"
    /\ IF ~confirmed
       THEN /\ done = {}
            /\ UNCHANGED <<mapId, categories, capabilities, capRef, selectedIds,
                           applyColorToAll, changedColorIds, hasUnsavedChanges,
                           history, historyIndex, toastState, inFlight, budget,
                           prior, server>>
       ELSE IF Cardinality(selectedIds) > 1
       THEN handleBulkDeleteCalls(TRUE, done)
       ELSE LET ids == {child.contextCapabilityId}
                ok == done = ids
                d == deleteCapabilities(ids, ok)
            IN /\ done \subseteq ids
               /\ IF ok THEN CanPush ELSE CanStep
               /\ capabilities' = d.capabilities
               /\ capRef' = d.capRef
               /\ history' = d.history
               /\ historyIndex' = d.historyIndex
               /\ toastState' = d.toastState
               /\ budget' = d.budget
               /\ prior' = IF ok THEN Observed("delete") ELSE NoPrior
               /\ server' = deleteCapability(done)
               /\ UNCHANGED <<inFlight, mapId, categories, selectedIds,
                              applyColorToAll, changedColorIds, hasUnsavedChanges>>
    /\ child' = NoChild
    /\ UNCHANGED <<held, loads, searchTerm, viewFilter, activeFilters,
                   selectedPhaseFilters, selectedSizeFilters, rendered>>

\* the map is open with capabilities the server holds, nothing is selected;
\* the user selects tiles, opens and closes the context menu, deletes from
\* the menu and from the toolbar, assigns a team role (which reloads the map
\* from the server), undoes and redoes.
InitDelete ==
    /\ mapId = 1
    /\ categories = <<Category(1, 0), Category(2, 1)>>
    /\ capabilities \in UNION {CapLists(n) : n \in 1 .. DeleteCaps}
    /\ capRef = NoRefs(capabilities)
    /\ selectedIds = {}
    /\ applyColorToAll = FALSE
    /\ changedColorIds = {}
    /\ hasUnsavedChanges = FALSE
    /\ history = <<Snapshot>>
    /\ historyIndex = 0
    /\ toastState = NoToast
    /\ inFlight = NoCall
    /\ budget = [push |-> DeletePushes, undo |-> Unlimited, step |-> Unlimited]
    /\ prior = NoPrior
    /\ held = NoHeld
    /\ loads = NoLoads
    /\ searchTerm = <<>>
    /\ viewFilter = "all"
    /\ activeFilters = {}
    /\ selectedPhaseFilters = {}
    /\ selectedSizeFilters = {}
    /\ rendered = NotRendered
    /\ child = NoChild
    /\ server = Followed(categories, capabilities)

NextDelete ==
    \/ \E capId \in 1 .. DeleteCaps, shiftKey \in BOOLEAN :
          /\ handleTileClick(capId, shiftKey)
          /\ selectedIds' # selectedIds
          /\ UNCHANGED ext
    \/ \E capId \in 1 .. DeleteCaps : handleTileContextMenu(capId)
    \/ handleDocumentClick
    \/ \E done \in SUBSET (1 .. DeleteCaps) : handleContextDelete(TRUE, done)
    \/ \E done \in SUBSET (1 .. DeleteCaps) :
          /\ handleBulkDeleteCalls(TRUE, done)
          /\ UNCHANGED <<held, loads, searchTerm, viewFilter, activeFilters,
                         selectedPhaseFilters, selectedSizeFilters, rendered, child>>
    \/ \E ok \in BOOLEAN :
          /\ handleBulkTeamApplied([categories |-> server.categories,
                                    capabilities |-> server.capabilities], ok)
          /\ UNCHANGED ext
    \/ handleUndo /\ UNCHANGED ext
    \/ handleRedo /\ UNCHANGED ext

SpecDelete == InitDelete /\ [][NextDelete]_vars

\* ----------------------------------------------- specification at the cap
\* A map with one capability is open and the capability is selected (the state
\* after handleProjectSelected and a tile click); the user keeps changing the
\* capability's size to the other size, and undoes and redoes.
InitCap ==
    /\ mapId = 1
    /\ categories = <<Category(1, 0), Category(2, 1)>>
    /\ capabilities = <<Cap(1, 1, 0, "TBD", "Phase 1", NoColor)>>
    /\ capRef = <<NoRef>>
    /\ selectedIds = {1}
    /\ applyColorToAll = FALSE
    /\ changedColorIds = {}
    /\ hasUnsavedChanges = FALSE
    /\ history = <<Snapshot>>
    /\ historyIndex = 0
    /\ toastState = NoToast
    /\ inFlight = NoCall
    /\ budget = [push |-> CapPushes, undo |-> CapUndos, step |-> Unlimited]
    /\ prior = NoPrior
    /\ ExtIdle

NextCap ==
    \/ \E value \in Sizes :
          /\ value # capabilities[1].Size__c
          /\ handleBulkApplied(value)
          /\ UNCHANGED ext
    \/ handleUndo /\ UNCHANGED ext
    \/ handleRedo /\ UNCHANGED ext

SpecCap == InitCap /\ [][NextCap]_vars

\* -------------------------------------------- specification of the colours
\* "has a phase": a phase other than the TBD that handleResetPhase writes
HasPhase(c) == c.Phase__c \notin {NoPhase, "TBD"}
HasColor(c) == c.Color__c # NoColor

OneColorPerPhaseIn(caps) ==
    \A i, j \in DOMAIN caps :
        (/\ HasPhase(caps[i]) /\ caps[i].Phase__c = caps[j].Phase__c
         /\ HasColor(caps[i]) /\ HasColor(caps[j]))
        => caps[i].Color__c = caps[j].Color__c

OnePhasePerColorIn(caps) ==
    \A i, j \in DOMAIN caps :
        (/\ HasColor(caps[i]) /\ caps[i].Color__c = caps[j].Color__c
         /\ HasPhase(caps[i]) /\ HasPhase(caps[j]))
        => caps[i].Phase__c = caps[j].Phase__c

\* capability lists of capabilities 1..n with any phase and colour
RECURSIVE ColoredLists(_)
ColoredLists(n) ==
    IF n = 0 THEN {<<>>}
    ELSE {Append(l, Cap(n, ((n - 1) % 2) + 1, n - 1, "TBD", ph, co)) :
             l \in ColoredLists(n - 1),
             ph \in Phases \cup {NoPhase}, co \in Colors \cup {NoColor}}

\* A map is open whose capabilities satisfy both rules (the state after
\* handleProjectSelected of such a map); the override is off and stays off.
InitColor ==
    /\ mapId = 1
    /\ categories = <<Category(1, 0), Category(2, 1)>>
    /\ capabilities \in {l \in ColoredLists(NumCaps) :
                            OneColorPerPhaseIn(l) /\ OnePhasePerColorIn(l)}
    /\ capRef = NoRefs(capabilities)
    /\ selectedIds = {}
    /\ applyColorToAll = FALSE
    /\ changedColorIds = {}
    /\ hasUnsavedChanges = FALSE
    /\ history = <<Snapshot>>
    /\ historyIndex = 0
    /\ toastState = NoToast
    /\ inFlight = NoCall
    /\ budget = [push |-> ColorSteps, undo |-> Unlimited, step |-> ColorSteps]
    /\ prior = NoPrior
    /\ ExtIdle

NextColor ==
    \/ \E capId \in CapIds, shiftKey \in BOOLEAN : handleTileClick(capId, shiftKey)
          /\ UNCHANGED ext
    \/ \E color \in Colors : handleColorSelect(color) /\ UNCHANGED ext
    \/ \E value \in Phases, ok \in BOOLEAN : handleBulkPhaseApplied(value, ok) /\ UNCHANGED ext
    \/ \E ok \in BOOLEAN : handleResetPhase(ok) /\ UNCHANGED ext
    \/ \E confirmed \in BOOLEAN, ok \in BOOLEAN : handleResetAllColors(confirmed, ok)
          /\ UNCHANGED ext
    \/ \E ok \in BOOLEAN : handleSaveColors(ok) /\ UNCHANGED ext
    \/ \E value \in Sizes : handleBulkApplied(value) /\ UNCHANGED ext
    \/ \E ok \in BOOLEAN : handleResetSize(ok) /\ UNCHANGED ext
    \/ handleUndo /\ UNCHANGED ext
    \/ handleRedo /\ UNCHANGED ext

SpecColor == InitColor /\ [][NextColor]_vars

\* ------------------------------- specification of saving colours to the server
\* the colour handleSaveColors sends for a capability: cap.Color__c || '#0176D3'
sentColor(cap) == IF Truthy(cap.Color__c) THEN cap.Color__c ELSE "#0176D3"

RECURSIVE colorGroupsFrom(_, _)
\* the keys of colorGroups in the order they are added: the colours sent for
\* the capabilities of changedColorIds, from capability i on, but for those seen
colorGroupsFrom(i, seen) ==
    IF i > Len(capabilities) THEN <<>>
    ELSE IF capabilities[i].Id \in changedColorIds
            /\ sentColor(capabilities[i]) \notin seen
    THEN <<sentColor(capabilities[i])>>
            \o colorGroupsFrom(i + 1, seen \cup {sentColor(capabilities[i])})
    ELSE colorGroupsFrom(i + 1, seen)

colorGroups == colorGroupsFrom(1, {})

\* handleSaveColors with the server followed: one bulkUpdateCapabilities call
\* per colour group, awaited in turn; the first n calls resolve, and when
\* there are more the next one rejects
handleSaveColorsCalls(n) ==
    LET sent == {colorGroups[k] : k \in 1 .. n}
        saved(rec) ==
            \E i \in DOMAIN capabilities :
                /\ capabilities[i].Id = rec.Id
                /\ rec.Id \in changedColorIds
                /\ sentColor(capabilities[i]) \in sent
        colorOf(rec) ==
            sentColor(capabilities[CHOOSE i \in DOMAIN capabilities :
                                       capabilities[i].Id = rec.Id])
    IN /\ n \in 0 .. Len(colorGroups)
       /\ handleSaveColors(n = Len(colorGroups))
       /\ server' = [server EXCEPT !.capabilities =
                        [j \in DOMAIN server.capabilities |->
                            IF saved(server.capabilities[j])
                            THEN [server.capabilities[j] EXCEPT
                                     !.Color__c = colorOf(server.capabilities[j])]
                            ELSE server.capabilities[j]]]
       /\ UNCHANGED <<held, loads, searchTerm, viewFilter, activeFilters,
                      selectedPhaseFilters, selectedSizeFilters, rendered, child>>

\* a map is open whose capabilities are in Phase 1 and carry no colour, as the
\* server holds them; the user selects, picks colours (the override is off), assigns a
\* team role (which reloads the map from the server), undoes, redoes and saves
\* the colours.
InitSave ==
    /\ mapId = 1
    /\ categories = <<Category(1, 0), Category(2, 1)>>
    /\ capabilities \in CapLists(NumCaps)
    /\ capRef = NoRefs(capabilities)
    /\ selectedIds = {}
    /\ applyColorToAll = FALSE
    /\ changedColorIds = {}
    /\ hasUnsavedChanges = FALSE
    /\ history = <<Snapshot>>
    /\ historyIndex = 0
    /\ toastState = NoToast
    /\ inFlight = NoCall
    /\ budget = [push |-> SavePushes, undo |-> Unlimited, step |-> Unlimited]
    /\ prior = NoPrior
    /\ held = NoHeld
    /\ loads = NoLoads
    /\ searchTerm = <<>>
    /\ viewFilter = "all"
    /\ activeFilters = {}
    /\ selectedPhaseFilters = {}
    /\ selectedSizeFilters = {}
    /\ rendered = NotRendered
    /\ child = NoChild
    /\ server = Followed(categories, capabilities)

NextSave ==
    \/ \E capId \in CapIds :
          /\ handleTileClick(capId, FALSE)
          /\ UNCHANGED ext
    \/ \E color \in Colors : handleColorSelect(color) /\ UNCHANGED ext
    \/ \E ok \in BOOLEAN :
          /\ handleBulkTeamApplied([categories |-> server.categories,
                                    capabilities |-> server.capabilities], ok)
          /\ UNCHANGED ext
    \/ handleUndo /\ UNCHANGED ext
    \/ handleRedo /\ UNCHANGED ext
    \/ \E n \in 0 .. NumCaps : handleSaveColorsCalls(n)

SpecSave == InitSave /\ [][NextSave]_vars

\* ------------------------------------------- specification of colouring
\* A map is open whose capabilities carry any phases and colours (what the
\* server returned, consistent or not); the user selects, picks colours with
\* the override on or off.
InitPaint ==
    /\ mapId = 1
    /\ categories = <<Category(1, 0), Category(2, 1)>>
    /\ capabilities \in ColoredLists(NumCaps)
    /\ capRef = NoRefs(capabilities)
    /\ selectedIds = {}
    /\ applyColorToAll = FALSE
    /\ changedColorIds = {}
    /\ hasUnsavedChanges = FALSE
    /\ history = <<Snapshot>>
    /\ historyIndex = 0
    /\ toastState = NoToast
    /\ inFlight = NoCall
    /\ budget = [push |-> 0, undo |-> 0, step |-> PaintSteps]
    /\ prior = NoPrior
    /\ ExtIdle

NextPaint ==
    \/ \E capId \in CapIds, shiftKey \in BOOLEAN : handleTileClick(capId, shiftKey)
          /\ UNCHANGED ext
    \/ \E checked \in BOOLEAN : handleApplyAllChange(checked) /\ UNCHANGED ext
    \/ \E color \in Colors : handleColorSelect(color) /\ UNCHANGED ext

SpecPaint == InitPaint /\ [][NextPaint]_vars

\* ------------------------------------------ specification of phase changes
\* A map is open whose capabilities carry any phases and colours; the user
\* selects and applies phases to the selection.
InitPhase ==
    /\ mapId = 1
    /\ categories = <<Category(1, 0), Category(2, 1)>>
    /\ capabilities \in ColoredLists(NumCaps)
    /\ capRef = NoRefs(capabilities)
    /\ selectedIds = {}
    /\ applyColorToAll = FALSE
    /\ changedColorIds = {}
    /\ hasUnsavedChanges = FALSE
    /\ history = <<Snapshot>>
    /\ historyIndex = 0
    /\ toastState = NoToast
    /\ inFlight = NoCall
    /\ budget = [push |-> PhaseSteps, undo |-> 0, step |-> PhaseSteps]
    /\ prior = NoPrior
    /\ ExtIdle

NextPhase ==
    \/ \E capId \in CapIds, shiftKey \in BOOLEAN : handleTileClick(capId, shiftKey)
          /\ UNCHANGED ext
    \/ \E value \in Phases, ok \in BOOLEAN : handleBulkPhaseApplied(value, ok) /\ UNCHANGED ext

SpecPhase == InitPhase /\ [][NextPhase]_vars

\* --------------------------------------------- specification of resizing
\* capability lists of capabilities 1..n of any size, with or without an hours
\* override, their hours as the server computes them
RECURSIVE SizedLists(_)
SizedLists(n) ==
    IF n = 0 THEN {<<>>}
    ELSE {Append(l, [Cap(n, ((n - 1) % 2) + 1, n - 1, size, "Phase 1", NoColor)
                        EXCEPT !.Hours_Override__c = override,
                               !.Calculated_Hours__c =
                                   IF override # NoOverride THEN override
                                   ELSE IF size = "XL" THEN capabilityMap.XL_Hours__c
                                   ELSE 0]) :
             l \in SizedLists(n - 1), size \in Sizes, override \in Overrides}

\* A map is open; the user selects, applies sizes to the selection and resets
\* sizes and phases, and keeps selecting while a reset awaits the server.
InitSize ==
    /\ mapId = 1
    /\ categories = <<Category(1, 0), Category(2, 1)>>
    /\ capabilities \in SizedLists(NumCaps)
    /\ capRef = NoRefs(capabilities)
    /\ selectedIds = {}
    /\ applyColorToAll = FALSE
    /\ changedColorIds = {}
    /\ hasUnsavedChanges = FALSE
    /\ history = <<Snapshot>>
    /\ historyIndex = 0
    /\ toastState = NoToast
    /\ inFlight = NoCall
    /\ budget = [push |-> SizeSteps, undo |-> 0, step |-> SizeSteps]
    /\ prior = NoPrior
    /\ ExtIdle

NextSize ==
    \/ \E capId \in CapIds, shiftKey \in BOOLEAN : handleTileClick(capId, shiftKey)
          /\ UNCHANGED ext
    \/ \E key \in {"a", "Escape"} : handleKeyDown(key) /\ UNCHANGED ext
    \/ \E value \in Sizes : handleBulkApplied(value) /\ UNCHANGED ext
    \/ handleResetSizeCall /\ UNCHANGED ext
    \/ \E ok \in BOOLEAN : handleResetSizeReturn(ok) /\ UNCHANGED ext
    \/ handleResetPhaseCall /\ UNCHANGED ext
    \/ \E ok \in BOOLEAN : handleResetPhaseReturn(ok) /\ UNCHANGED ext

SpecSize == InitSize /\ [][NextSize]_vars

\* ================================================================= claims
\* a step in which saveHistory ran
PushStep == budget'.push # budget.push

\* C1: after any sequence of saveHistory, handleUndo and handleRedo (and of the
\* handlers that call them) either history is empty and historyIndex = -1, or
\* 0 <= historyIndex < history.length.
C1_HistoryIndexInRange ==
    \/ history = <<>> /\ historyIndex = 0 - 1
    \/ 0 <= historyIndex /\ historyIndex < Len(history)

\* an undo has moved the cursor off the last of several entries
C1_Witness == prior.op = "undo" /\ Len(history) >= 2 /\ historyIndex < Len(history) - 1

\* C2: a history entry never changes once pushed: in every step each entry that
\* stays in the history (it is not in the discarded redo tail and is not the
\* evicted oldest entry) has the value it had, also when handleDrop writes to
\* the live capabilities after an undo or redo.
C2_HistoryEntriesImmutable ==
    [][\A k \in DOMAIN history :
          LET evicting == PushStep /\ historyIndex + 2 > MaxHistory
              discarded == PushStep /\ (k > historyIndex + 1 \/ (evicting /\ k = 1))
              kNew == IF evicting THEN k - 1 ELSE k
          IN ~discarded => (kNew \in DOMAIN history' /\ history'[kNew] = history[k])
      ]_vars

\* C3: handleUndo followed immediately by handleRedo leaves categories and
\* capabilities equal to what they were just before the undo.
C3_UndoThenRedoRestores ==
    [][(prior.op = "undo" /\ handleRedo) => Snapshot' = prior.snapshot]_vars

\* C4: every handler that commits a change to categories or capabilities calls
\* saveHistory, so whenever no handler is running history[historyIndex] equals
\* the live {categories, capabilities}.
C4_CursorEntryIsLive ==
    historyIndex >= 0 => history[historyIndex + 1] = Snapshot

\* C6: saveHistory called while the cursor is not at the last entry discards
\* every entry after the cursor before appending: afterwards the new entry is
\* the last one, historyIndex points at it and redo is not possible (cannotRedo,
\* the condition under which handleRedo does nothing).
C6_PushTruncatesRedoTail ==
    [][(PushStep /\ historyIndex < Len(history) - 1) =>
          /\ Len(history') = historyIndex + 2
          /\ history'[Len(history')] = Snapshot'
          /\ historyIndex' = Len(history') - 1
          /\ cannotRedo'
      ]_vars

\* saveHistory has run more often than the history is long, and not at the cap:
\* a redo tail was discarded
C6_Witness ==
    /\ MaxPushes - budget.push > Len(history)
    /\ historyIndex = Len(history) - 1
    /\ Len(history) >= 2

\* C7: handleUndo at the first position (historyIndex <= 0, also with an empty
\* history) and handleRedo at the last position change nothing: history,
\* historyIndex, categories, capabilities stay and no toast is shown.
C7_BoundaryUndoRedoAreNoOps ==
    [][/\ (cannotUndo /\ handleUndo) =>
             UNCHANGED <<history, historyIndex, categories, capabilities, toastState>>
       /\ (cannotRedo /\ handleRedo) =>
             UNCHANGED <<history, historyIndex, categories, capabilities, toastState>>
      ]_vars

\* the cursor was undone to the first of several entries: undo is at its boundary
C7_Witness == prior.op = "undo" /\ historyIndex = 0 /\ Len(history) >= 2

\* C8: after a successful delete of capability B, one handleUndo restores B at
\* its place in the snapshot with its original category and sort order.
C8_UndoAfterDeleteRestores ==
    [][(prior.op = "delete" /\ handleUndo) =>
          \A i \in DOMAIN prior.snapshot.capabilities :
              LET B == prior.snapshot.capabilities[i]
              IN (\A j \in DOMAIN capabilities : capabilities[j].Id # B.Id) =>
                    /\ i \in DOMAIN capabilities'
                    /\ capabilities'[i].Id = B.Id
                    /\ capabilities'[i].Capability_Category__c = B.Capability_Category__c
                    /\ capabilities'[i].Sort_Order__c = B.Sort_Order__c
      ]_vars

\* a delete has just removed a capability and was followed by an undo that
\* brought it back
C8_Witness ==
    /\ prior.op = "undo"
    /\ prior.after = "delete"
    /\ \E i \in DOMAIN capabilities :
          \A j \in DOMAIN prior.snapshot.capabilities :
              prior.snapshot.capabilities[j].Id # capabilities[i].Id

\* C5: history.length never exceeds the cap; a saveHistory that would exceed it
\* evicts the oldest entry, and historyIndex points at the new, last entry.
C5_HistoryCapped ==
    /\ [](Len(history) <= MaxHistory)
    /\ [][(PushStep /\ historyIndex + 2 > MaxHistory) =>
             /\ Len(history') = MaxHistory
             /\ \A k \in 1 .. MaxHistory - 1 : history'[k] = history[k + 1]
             /\ history'[MaxHistory] = Snapshot'
             /\ historyIndex' = MaxHistory - 1
         ]_vars

\* saveHistory has run at least as often as the cap and the history is full
C5_Witness ==
    /\ CapPushes - budget.push >= MaxHistory
    /\ Len(history) = MaxHistory
    /\ historyIndex = MaxHistory - 1

\* C9: at most one colour per phase: any two capabilities that have the same
\* phase and both have a colour have the same colour (a phase reset to TBD is
\* read as no phase, the reading that asks least of the code).
C9_OneColorPerPhase == OneColorPerPhaseIn(capabilities)

\* C10: at most one phase per colour: any two capabilities that have the same
\* colour and both have a phase have the same phase (TBD read as no phase).
C10_OnePhasePerColor == OnePhasePerColorIn(capabilities)

\* C11: without override, when every coloured capability of phase P has colour
\* C1 and a capability of P outside the selection holds C1, picking a colour
\* C2 # C1 for a selection that contains a capability of P is rejected with a
\* warning and changes no capability, changedColorIds or hasUnsavedChanges.
C11_PhaseConflictRejected ==
    [][\A C2 \in Colors : \A p \in DOMAIN capabilities :
          LET P == capabilities[p].Phase__c
              inP == {i \in DOMAIN capabilities : capabilities[i].Phase__c = P}
          IN (/\ ~applyColorToAll
              /\ capabilities[p].Id \in selectedIds
              /\ Truthy(P)
              /\ \E C1 \in Colors \ {C2} :
                    /\ \A i \in inP : capabilities[i].Color__c \in {NoColor, C1}
                    /\ \E o \in inP : /\ capabilities[o].Id \notin selectedIds
                                      /\ capabilities[o].Color__c = C1
              /\ handleColorSelect(C2))
             => /\ UNCHANGED <<capabilities, changedColorIds, hasUnsavedChanges>>
                /\ toastState'.type = "warning"
      ]_vars

\* the rejection for a phase that already has a different colour was shown
C11_Witness ==
    /\ toastState = Toast("Cannot change", "warning")
    /\ ~applyColorToAll
    /\ changedColorIds = {}

\* C12: without override, when the first capability (in sequence order) that
\* has a phase and the colour C has a phase that no selected capability has,
\* picking C is rejected with the "Cannot use" warning (not the "Cannot change"
\* one) and no capability is changed.
C12_ColorInUseRejected ==
    [][\A C \in Colors :
          LET has == {i \in DOMAIN capabilities :
                         /\ Truthy(capabilities[i].Phase__c)
                         /\ capabilities[i].Color__c = C}
              first == CHOOSE i \in has : \A j \in has : i <= j
          IN (/\ ~applyColorToAll
              /\ selectedIds # {}
              /\ has # {}
              /\ \A i \in DOMAIN capabilities :
                    capabilities[i].Id \in selectedIds =>
                        capabilities[i].Phase__c # capabilities[first].Phase__c
              /\ handleColorSelect(C))
             => /\ toastState' = Toast("Cannot use", "warning")
                /\ toastState' # Toast("Cannot change", "warning")
                /\ UNCHANGED <<capabilities, changedColorIds, hasUnsavedChanges>>
      ]_vars

\* the rejection for a colour in use by another phase was shown
C12_Witness ==
    /\ toastState = Toast("Cannot use", "warning")
    /\ ~applyColorToAll
    /\ selectedIds # {}

\* handleColorSelect of C, on a selection with a capability that has a phase
\* and while no capability has both a phase and a colour, colours every
\* capability of the phases of the selection and leaves the colour of the
\* capabilities that are neither selected nor in such a phase
C13_Propagates(C) ==
    LET selPhases == {capabilities[i].Phase__c :
                         i \in {j \in DOMAIN capabilities :
                                   /\ capabilities[j].Id \in selectedIds
                                   /\ Truthy(capabilities[j].Phase__c)}}
    IN (/\ selPhases # {}
        /\ \A i \in DOMAIN capabilities :
              ~(Truthy(capabilities[i].Phase__c) /\ Truthy(capabilities[i].Color__c))
        /\ handleColorSelect(C))
       => \A i \in DOMAIN capabilities :
             /\ capabilities[i].Phase__c \in selPhases => capabilities'[i].Color__c = C
             /\ (/\ capabilities[i].Id \notin selectedIds
                 /\ capabilities[i].Phase__c \notin selPhases)
                => capabilities'[i].Color__c = capabilities[i].Color__c

\* C13 as stated: with no existing phase/colour mapping, picking C for a
\* selection with a capability of phase P colours every capability of P,
\* selected or not, and leaves the others' colours (whatever the override is).
C13_PropagatesAlways == [][\A C \in Colors : C13_Propagates(C)]_vars

\* C13 with the override off
C13_PropagatesWithoutOverride ==
    [][\A C \in Colors : ~applyColorToAll => C13_Propagates(C)]_vars

\* from a snapshot without any mapping, one pick without override has coloured
\* a capability that was not selected
C13_Witness ==
    /\ ~applyColorToAll
    /\ toastState = Toast("Color applied", "")
    /\ budget.step = PaintSteps - 1
    /\ \A i \in DOMAIN history[1].capabilities :
          ~(/\ Truthy(history[1].capabilities[i].Phase__c)
            /\ Truthy(history[1].capabilities[i].Color__c))
    /\ changedColorIds \ selectedIds # {}

\* C14: with the override set handleColorSelect checks no conflict and
\* propagates nothing: exactly the selected capabilities get the colour, every
\* other capability stays as it is, and no warning is shown.
C14_OverrideColorsSelectionOnly ==
    [][\A C \in Colors :
          (applyColorToAll /\ selectedIds # {} /\ handleColorSelect(C))
          => /\ \A i \in DOMAIN capabilities :
                   IF capabilities[i].Id \in selectedIds
                   THEN capabilities'[i] = [capabilities[i] EXCEPT !.Color__c = C]
                   ELSE capabilities'[i] = capabilities[i]
             /\ toastState'.type # "warning"
      ]_vars

\* with the override set a colour was applied while a capability outside the
\* selection shares the phase of a selected one and keeps another colour
C14_Witness ==
    /\ applyColorToAll
    /\ toastState = Toast("Color applied", "")
    /\ \E i, j \in DOMAIN capabilities :
          /\ capabilities[i].Id \in selectedIds
          /\ capabilities[j].Id \notin changedColorIds
          /\ capabilities[i].Phase__c = capabilities[j].Phase__c
          /\ Truthy(capabilities[i].Phase__c)
          /\ capabilities[i].Color__c # capabilities[j].Color__c

\* C15: after a successful handleColorSelect the selection and every
\* capability whose colour it set are in changedColorIds and hasUnsavedChanges
\* is true; a rejected call or one with an empty selection (a warning) adds
\* nothing to changedColorIds.
C15_ChangedColorIdsTracked ==
    [][\A C \in Colors :
          (selectedIds' = selectedIds /\ handleColorSelect(C)) =>
             IF toastState'.type = "warning"
             THEN changedColorIds' = changedColorIds
             ELSE /\ selectedIds \subseteq changedColorIds'
                  /\ \A i \in DOMAIN capabilities :
                        capabilities'[i] # capabilities[i] =>
                            capabilities[i].Id \in changedColorIds'
                  /\ changedColorIds \subseteq changedColorIds'
                  /\ hasUnsavedChanges'
      ]_vars

\* a pick has coloured capabilities and they are recorded as unsaved
C15_Witness ==
    /\ toastState = Toast("Color applied", "")
    /\ changedColorIds # {}
    /\ selectedIds \subseteq changedColorIds
    /\ hasUnsavedChanges

\* C16: when the bulkUpdateCapabilities call of handleResetSize or
\* handleResetPhase resolves, the capabilities updated in memory are exactly
\* those whose identifiers were sent: each of them has the TBD value and every
\* other capability is as it was, also when the selection changed meanwhile.
C16_UpdatedSetIsSentSet ==
    [][/\ handleResetSizeReturn(TRUE) =>
             \A i \in DOMAIN capabilities :
                IF capabilities[i].Id \in inFlight.ids
                THEN capabilities'[i].Size__c = "TBD"
                ELSE capabilities'[i] = capabilities[i]
       /\ handleResetPhaseReturn(TRUE) =>
             \A i \in DOMAIN capabilities :
                IF capabilities[i].Id \in inFlight.ids
                THEN capabilities'[i].Phase__c = "TBD"
                ELSE capabilities'[i] = capabilities[i]
      ]_vars

\* C17: when the external call of a bulk mutation fails (the colour-sync call
\* of handleBulkPhaseApplied, or the call of handleResetSize, handleResetPhase,
\* handleResetAllColors or handleSaveColors), the capabilities afterwards are
\* those from before the mutation and an error toast is shown.
C17_FailureLeavesCapabilities ==
    [][/\ \A value \in Phases :
             (/\ handleBulkPhaseApplied(value, FALSE)
              /\ selectedIds # {}
              /\ Truthy(PhaseColorOf(capabilities, value)))
             => /\ capabilities' = capabilities
                /\ toastState'.type = "error"
       /\ (handleResetSizeReturn(FALSE) \/ handleResetPhaseReturn(FALSE))
             => /\ capabilities' = capabilities
                /\ toastState'.type = "error"
       /\ (/\ handleResetAllColors(TRUE, FALSE)
           /\ \E i \in DOMAIN capabilities : Truthy(capabilities[i].Color__c))
             => /\ capabilities' = capabilities
                /\ toastState'.type = "error"
       /\ (handleSaveColors(FALSE) /\ changedColorIds # {})
             => /\ capabilities' = capabilities
                /\ toastState'.type = "error"
      ]_vars

\* C18: after a bulk size change to a size (handleBulkApplied, and
\* handleResetSize for TBD) every selected capability has the size, and its
\* computed hours are its hours override when it carries one (0 included),
\* otherwise the hours the map configures for the size (32 for XL, 0 for TBD);
\* the other capabilities keep their size and hours.
C18_OverrideAlwaysWins ==
    [][/\ \A size \in Sizes :
             handleBulkApplied(size) =>
                \A i \in DOMAIN capabilities :
                   IF capabilities[i].Id \in selectedIds
                   THEN /\ capabilities'[i].Size__c = size
                        /\ capabilities'[i].Calculated_Hours__c =
                              IF capabilities[i].Hours_Override__c # NoOverride
                              THEN capabilities[i].Hours_Override__c
                              ELSE IF size = "XL" THEN 32 ELSE 0
                   ELSE /\ capabilities'[i].Size__c = capabilities[i].Size__c
                        /\ capabilities'[i].Calculated_Hours__c =
                              capabilities[i].Calculated_Hours__c
       /\ handleResetSizeReturn(TRUE) =>
             \A i \in DOMAIN capabilities :
                IF capabilities[i].Id \in selectedIds
                THEN /\ capabilities'[i].Size__c = "TBD"
                     /\ capabilities'[i].Calculated_Hours__c =
                           IF capabilities[i].Hours_Override__c # NoOverride
                           THEN capabilities[i].Hours_Override__c
                           ELSE 0
                ELSE /\ capabilities'[i].Size__c = capabilities[i].Size__c
                     /\ capabilities'[i].Calculated_Hours__c =
                           capabilities[i].Calculated_Hours__c
      ]_vars

\* C19: a bulk size or phase change is idempotent: applying the same update
\* (same selection, same value) to the capabilities it has just produced
\* leaves them as they are.
C19_BulkUpdateIdempotent ==
    [][/\ \A value \in Phases :
             handleBulkPhaseApplied(value, TRUE) =>
                bulkPhaseUpdate(capabilities', selectedIds', value) = capabilities'
       /\ \A value \in Sizes :
             handleBulkApplied(value) =>
                bulkSizeUpdate(capabilities', selectedIds', value) = capabilities'
      ]_vars

\* C20: after a bulk phase change every selected capability has the target
\* phase; when some capability of that phase had a colour, every selected
\* capability has the colour of the first such capability in sequence order,
\* and otherwise the selected capabilities keep their colours.
C20_PhaseChangeTakesPhaseColor ==
    [][\A value \in Phases :
          (\E ok \in BOOLEAN : handleBulkPhaseApplied(value, ok)) =>
             LET colored == {k \in DOMAIN capabilities :
                                /\ capabilities[k].Phase__c = value
                                /\ Truthy(capabilities[k].Color__c)}
             IN \A i \in DOMAIN capabilities :
                   capabilities[i].Id \in selectedIds =>
                      /\ capabilities'[i].Phase__c = value
                      /\ IF colored = {}
                         THEN capabilities'[i].Color__c = capabilities[i].Color__c
                         ELSE \E k \in colored :
                                 /\ \A j \in colored : k <= j
                                 /\ capabilities'[i].Color__c =
                                       capabilities[k].Color__c
      ]_vars

\* a phase change has given a selected capability the colour of an earlier
\* capability of the target phase, although the selected capability was itself
\* in that phase with another colour (two candidates, the first one won)
C20_Witness ==
    /\ toastState = Toast("Updated phase", "")
    /\ Len(history) >= 2
    /\ LET before == history[Len(history) - 1].capabilities
       IN \E i \in DOMAIN capabilities, k \in DOMAIN capabilities :
             /\ k < i
             /\ capabilities[i].Id \in selectedIds
             /\ before[k].Phase__c = capabilities[i].Phase__c
             /\ before[i].Phase__c = capabilities[i].Phase__c
             /\ Truthy(before[k].Color__c)
             /\ Truthy(before[i].Color__c)
             /\ before[i].Color__c # before[k].Color__c
             /\ capabilities[i].Color__c = before[k].Color__c

\* C21: in every reachable state every capability's size is one of the eight
\* sizes and its phase is one of the six phases or unset.
C21_ClosedEnumerations ==
    \A i \in DOMAIN capabilities :
        /\ capabilities[i].Size__c \in SIZES
        /\ capabilities[i].Phase__c \in PHASES \cup {NoPhase}

\* C22: in every reachable state every capability's category identifier is
\* the identifier of a category of the current categories list.
C22_CategoryReferencesResolve ==
    \A i \in DOMAIN capabilities :
        \E k \in DOMAIN categories :
            categories[k].Id = capabilities[i].Capability_Category__c

\* a move has returned after the capabilities it was issued on had been
\* replaced, while the category it moved to is not in the list any more
C22_Witness ==
    /\ prior.op = "handleDrop"
    /\ prior.after = "replaced"
    /\ toastState = Toast("Moved", "")
    /\ Len(categories) = 1
    /\ capabilities # <<>>

\* C23: whenever handleProjectSelected or handleFavoriteClick has run to its
\* end with the server's answers, the selection is empty.
C23_SelectionClearedOnMapSwitch ==
    [][\A req \in loads.pending :
          (/\ req.stage = "data"
           /\ \E d \in SwitchResponses(req.mapId) : getMapWithDataReturn(req, TRUE, d))
          => selectedIds' = {}]_vars

\* C29: once an answer of getMapWithData has arrived, categories and
\* capabilities are those of the answer that arrived last, whatever the order
\* in which the requests were issued.
C29_LastCompletedWins ==
    loads.completed # <<>> =>
        LET last == loads.completed[Len(loads.completed)].data
        IN /\ categories = SortBySortOrder(last.categories)
           /\ capabilities = last.capabilities

\* two loads were awaited at once and the one issued first answered last,
\* with different data
C29_Witness ==
    /\ Len(loads.completed) = 2
    /\ loads.completed[1].n > loads.completed[2].n
    /\ loads.completed[1].data # loads.completed[2].data
    /\ capabilities = loads.completed[2].data.capabilities

\* C30: a run of handleProjectSelected in which getMapByProject, createMap or
\* getMapWithData fails leaves mapId, categories, capabilities and the history
\* as they were and shows an error toast.
C30_FailedLoadKeepsState ==
    [][(\E m \in MapIds, mapOk \in BOOLEAN, r \in LoadOutcomes :
           /\ ~mapOk \/ ~r.ok
           /\ handleProjectSelected(m, mapOk, r.data, r.ok))
       => /\ UNCHANGED <<mapId, categories, capabilities, history, historyIndex>>
          /\ toastState'.type = "error"]_vars

\* C24: the getter of capabilityMapApp lists under each category exactly the
\* capabilities of that category whose name contains the search term whatever
\* the case of the letters (when there is a term), whose size is not an
\* excluded size, and which the view mode lets through ('sized' no TBD, 'tbd'
\* only TBD); for A(Cat1,M), B(Cat1,TBD), C(Cat2,L) and view 'sized' that is
\* Cat1:[A], Cat2:[C].
C24_ViewListsPassingCapabilities ==
    rendered.by = "app" =>
        LET contains(name, term) ==
                \E i \in 1 .. (Len(name) - Len(term) + 1) :
                    \A j \in 1 .. Len(term) : Lower(name[i + j - 1]) = Lower(term[j])
            passes(cap) ==
                /\ searchTerm # <<>> => contains(cap.Name, searchTerm)
                /\ cap.Size__c \notin activeFilters
                /\ viewFilter = "sized" => cap.Size__c # "TBD"
                /\ viewFilter = "tbd" => cap.Size__c = "TBD"
            ids(k) == [j \in DOMAIN rendered.value[k].capabilities |->
                          rendered.value[k].capabilities[j].Id]
        IN /\ DOMAIN rendered.value = DOMAIN categories
           /\ \A k \in DOMAIN categories :
                 LET expected == {capabilities[i].Id : i \in
                                    {i \in DOMAIN capabilities :
                                        /\ capabilities[i].Capability_Category__c
                                              = categories[k].Id
                                        /\ passes(capabilities[i])}}
                 IN /\ rendered.value[k].Id = categories[k].Id
                    /\ Range(ids(k)) = expected
                    /\ Len(ids(k)) = Cardinality(expected)
           /\ (/\ Len(capabilities) = 3
               /\ \A i \in 1 .. 3 : capabilities[i].Id = i
               /\ capabilities[1].Capability_Category__c = 1
               /\ capabilities[1].Size__c = "M"
               /\ capabilities[2].Capability_Category__c = 1
               /\ capabilities[2].Size__c = "TBD"
               /\ capabilities[3].Capability_Category__c = 2
               /\ capabilities[3].Size__c = "L"
               /\ viewFilter = "sized"
               /\ searchTerm = <<>>
               /\ activeFilters = {})
              => ids(1) = <<1>> /\ ids(2) = <<3>>

\* the view of A(Cat1,M), B(Cat1,TBD), C(Cat2,L) in view mode 'sized' has been
\* computed
C24_Witness ==
    /\ rendered.by = "app"
    /\ viewFilter = "sized"
    /\ searchTerm = <<>>
    /\ activeFilters = {}
    /\ Len(capabilities) = 3
    /\ capabilities[2].Capability_Category__c = 1
    /\ capabilities[3].Capability_Category__c = 2
    /\ Len(rendered.value[1].capabilities) = 1
    /\ rendered.value[1].capabilities[1].Id = 1
    /\ Len(rendered.value[2].capabilities) = 1
    /\ rendered.value[2].capabilities[1].Id = 3

\* C25: in the view of capabilityMapApp a tile is blurred exactly when a chip
\* is active and the capability's phase is not among the active phase chips
\* (some phase chip being active) or its size is not among the active size
\* chips (some size chip being active); the chips take no capability out of
\* the view.
C25_ChipsOnlyDim ==
    rendered.by = "app" =>
        \A k \in DOMAIN categories :
            LET tiles == rendered.value[k].capabilities
            IN /\ \A j \in DOMAIN tiles :
                     (\E w \in DOMAIN tiles[j].tileClass : tiles[j].tileClass[w] = "blurred")
                     <=> \/ /\ selectedPhaseFilters # {}
                            /\ tiles[j].Phase__c \notin selectedPhaseFilters
                         \/ /\ selectedSizeFilters # {}
                            /\ tiles[j].Size__c \notin selectedSizeFilters
               /\ {tiles[j].Id : j \in DOMAIN tiles}
                     = {capabilities[i].Id : i \in
                          {i \in DOMAIN capabilities :
                              passesFilters(capabilities[i], categories[k])}}

\* with chips of both kinds active, a tile whose phase is among the phase
\* chips and whose size is not among the size chips is blurred, and another
\* tile is not
C25_Witness ==
    /\ rendered.by = "app"
    /\ selectedPhaseFilters # {}
    /\ selectedSizeFilters # {}
    /\ \E k \in DOMAIN rendered.value :
          \E j \in DOMAIN rendered.value[k].capabilities :
              LET t == rendered.value[k].capabilities[j]
              IN /\ t.Phase__c \in selectedPhaseFilters
                 /\ t.Size__c \notin selectedSizeFilters
                 /\ t.tileClass = <<"capability-tile", "blurred">>
    /\ \E k \in DOMAIN rendered.value :
          \E j \in DOMAIN rendered.value[k].capabilities :
              rendered.value[k].capabilities[j].tileClass
                  = <<"capability-tile", "multi-selected">>

C27_OrphansInvisible ==
    rendered.by \in {"app", "canvas"} =>
        \A i \in DOMAIN capabilities, k \in DOMAIN categories :
            LET cap == capabilities[i]
                listed == \E j \in DOMAIN rendered.value[k].capabilities :
                              rendered.value[k].capabilities[j].Id = cap.Id
                orphan == \A c \in DOMAIN categories :
                              categories[c].Id # cap.Capability_Category__c
            IN /\ orphan => ~listed
               /\ ~orphan =>
                     (listed <=>
                         /\ cap.Capability_Category__c = categories[k].Id
                         /\ \/ rendered.by = "canvas"
                            \/ passesFilters(cap, categories[k]))

\* the view of capabilityMapCanvas has been computed for a snapshot with a
\* capability in none of the categories, and lists the other capabilities
C27_Witness ==
    /\ rendered.by = "canvas"
    /\ \E i \in DOMAIN capabilities :
          \A c \in DOMAIN categories : categories[c].Id # capabilities[i].Capability_Category__c
    /\ \A k \in DOMAIN rendered.value : rendered.value[k].capabilities # <<>>
    /\ \A k \in DOMAIN rendered.value :
          \A j \in DOMAIN rendered.value[k].capabilities :
              rendered.value[k].capabilities[j].Capability_Category__c = categories[k].Id

\* C28: in the views of capabilityMapApp and of capabilityMapCanvas the
\* capabilities of a category are in ascending sort order, a missing sort
\* order counting as 0, and capabilities of equal sort order are in the order
\* they have in capabilities.
C28_SortedStable ==
    rendered.by \in {"app", "canvas"} =>
        \A k \in DOMAIN rendered.value :
            LET l == rendered.value[k].capabilities
                key(t) == IF t.Sort_Order__c = NoSortOrder THEN 0 ELSE t.Sort_Order__c
                at(t) == CHOOSE i \in DOMAIN capabilities : capabilities[i].Id = t.Id
            IN \A a, b \in DOMAIN l :
                  a < b => /\ key(l[a]) <= key(l[b])
                           /\ key(l[a]) = key(l[b]) => at(l[a]) < at(l[b])

\* C31: in handleResetSize, handleResetPhase, handleResetAllColors and
\* handleDrop a step that sends the call leaves capabilities and the history
\* alone, capabilities change only in the step in which a call has resolved,
\* a call that fails leaves capabilities, history and historyIndex as they
\* were, and handleDrop sends its call only for a category other than the
\* capability's own.
C31_ApplyOnlyAfterSuccess ==
    [][/\ (inFlight = NoCall /\ inFlight' # NoCall)
             => UNCHANGED <<capabilities, history, historyIndex>>
       /\ capabilities' # capabilities
             => /\ inFlight # NoCall
                /\ inFlight' = NoCall
                /\ toastState'.type # "error"
       /\ (inFlight # NoCall /\ inFlight' = NoCall /\ toastState'.type = "error")
             => UNCHANGED <<capabilities, history, historyIndex>>
       /\ (inFlight = NoCall /\ inFlight'.op = "handleDrop")
             => capabilities[held'.live].Capability_Category__c # held'.newCategoryId
      ]_vars

\* a reset of the phase has failed after a move had succeeded, and the
\* capabilities still have their phase
C31_Witness ==
    /\ inFlight = NoCall
    /\ toastState = Toast("Error resetting phase", "error")
    /\ Len(history) = 2
    /\ capabilities # <<>>
    /\ \A i \in DOMAIN capabilities : capabilities[i].Phase__c = "Phase 1"

\* C32: from a state in which a required field of the open modal is missing
\* (an edit modal without a name, a capability modal without a category, the
\* bulk modal for team members without a role) no step calls an Apex method
\* or dispatches an event.
C32_MissingFieldRejected ==
    [][(\/ /\ child.component \in {"CapabilityEditModal", "CapabilityEditModal (isLoading)",
                                   "CategoryEditModal", "CategoryEditModal (isLoading)"}
           /\ child.name = <<>>
        \/ /\ child.component \in {"CapabilityEditModal", "CapabilityEditModal (isLoading)"}
           /\ child.categoryId = 0
        \/ /\ child.component = "BulkOperationsModal"
           /\ child.mode = "team"
           /\ child.selectedRoleId = "")
       => /\ child'.calls = child.calls
          /\ child'.events = child.events]_vars

\* C33: a deleteCapabilities(ids) whose every deleteCapability call resolves
\* leaves exactly the previous capabilities whose Id is not in ids, in their
\* order, and pushes one history entry (the new snapshot, after the entries up
\* to the cursor); one with a call that rejects leaves capabilities, history
\* and historyIndex as they were and shows the error toast, also when earlier
\* calls of it resolved.
C33_DeleteAllOrNothing ==
    [][LET ids == IF child' # child /\ Cardinality(selectedIds) <= 1
                  THEN {child.contextCapabilityId}
                  ELSE selectedIds
           kept(c) == c.Id \notin ids
           applied ==
               /\ toastState' = Toast("Deleted", "")
               /\ capabilities' = SelectSeq(capabilities, kept)
               /\ history' = Append(SubSeq(history, 1, historyIndex + 1),
                                    [categories |-> categories',
                                     capabilities |-> capabilities'])
               /\ historyIndex' = Len(history') - 1
           refused ==
               /\ toastState' = Toast("Error deleting", "error")
               /\ UNCHANGED <<capabilities, history, historyIndex>>
       IN /\ toastState' = Toast("Error deleting", "error") => refused
          /\ server' # server => applied \/ refused
          /\ (toastState' = Toast("Deleted", "") /\ history' # history) => applied
      ]_vars

\* one of two capabilities was deleted, on the server and in memory
C33_Witness ==
    /\ toastState = Toast("Deleted", "")
    /\ Len(history) = 2
    /\ Len(history[1].capabilities) = 2
    /\ Len(capabilities) = 1
    /\ server.capabilities = capabilities

\* C36: in every reachable state every selected identifier is the Id of a
\* capability of the snapshot.
C36_SelectionExists ==
    selectedIds \subseteq {capabilities[i].Id : i \in DOMAIN capabilities}

\* C38: after a deleteCapabilities that failed part-way (a deleteCapability
\* call of it resolved, a later one rejected) every capability of the
\* in-memory snapshot still exists on the server.
C38_PartialDeleteAgrees ==
    [][(server' # server /\ toastState' = Toast("Error deleting", "error"))
          => \A i \in DOMAIN capabilities' :
                \E j \in DOMAIN server'.capabilities :
                    server'.capabilities[j].Id = capabilities'[i].Id
      ]_vars

\* C35: when the in-memory snapshot equals what the server has persisted, it
\* still does after a handleUndo or handleRedo that moved the cursor (so that
\* a load of the map would change neither categories nor capabilities).
C35_UndoRedoAgreeWithServer ==
    [][(/\ historyIndex' # historyIndex
        /\ history' = history
        /\ capabilities = server.capabilities
        /\ categories = server.categories)
          => /\ capabilities' = server'.capabilities
             /\ categories' = server'.categories
      ]_vars

\* C34: a handleUndo or handleRedo that moves the cursor restores categories
\* and capabilities that were recorded for the map that is open (the answers
\* for map m hold the category m).
C34_UndoStaysInMap ==
    [][(historyIndex' # historyIndex /\ history' = history)
          => /\ \A i \in DOMAIN categories' : categories'[i].Id = mapId'
             /\ \A i \in DOMAIN capabilities' :
                   capabilities'[i].Capability_Category__c = mapId'
      ]_vars

\* C37: when handleSaveColors has sent the colours and every call resolved,
\* the server holds, for every capability that was in changedColorIds, the
\* colour the capability has in memory (unset when it is unset in memory),
\* changedColorIds is empty and hasUnsavedChanges is false.
C37_SavedColorsAgree ==
    [][(changedColorIds # {} /\ toastState' = Toast("Colors saved successfully", ""))
          => /\ changedColorIds' = {}
             /\ hasUnsavedChanges' = FALSE
             /\ \A i \in DOMAIN capabilities' :
                   capabilities'[i].Id \in changedColorIds
                      => \E j \in DOMAIN server'.capabilities :
                            /\ server'.capabilities[j].Id = capabilities'[i].Id
                            /\ server'.capabilities[j].Color__c
                                  = capabilities'[i].Color__c
      ]_vars

\* C39: whenever selectedTemplateData is set, it is the data fetched for the
\* template that selectedTemplateId names.
C39_PreviewOfSelectedTemplate ==
    (child.component = "CapabilityMapTemplateModal"
        /\ child.selectedTemplateData # NoTemplateData)
       => child.selectedTemplateData = TemplateData(child.selectedTemplateId)

\* C40: in the project selector every getProjects call is for a term of two
\* characters or more; while searchTerm has fewer than two characters
\* projects is empty and the dropdown hidden; and a non-empty projects list
\* is the result for the searchTerm the input holds.
C40_SearchIsCurrent ==
    child.component = "ProjectSelector"
       => /\ \A req \in child.pending : Len(req.term) >= 2
          /\ Len(child.searchTerm) < 2
                => ~child.projects.found /\ ~child.showDropdown
          /\ child.projects.found => child.projects.term = child.searchTerm
====
